---- MODULE Spec2Model ----
(***************************************************************************)
(* Model of the Stremio integration of the "titles" desktop application:   *)
(* the credential store (GSettings), the authentication service, the addon *)
(* service, the remote API they talk to, and the preferences addon panel   *)
(* that drives them.                                                       *)
(*                                                                         *)
(* Python dicts are records whose DOMAIN is the set of keys present, so    *)
(* "'k' in d" is "k \in DOMAIN d".  A JSON value that need not be a dict   *)
(* is wrapped as [t |-> "null"] or [t |-> "object", v |-> dict].           *)
(* List indices are 0-based in the code and 1-based in Sequences: element  *)
(* i of the code is element i + 1 here.                                    *)
(***************************************************************************)
EXTENDS Integers, Sequences, FiniteSets, TLC

VARIABLES
    store,          \* GSettings: stremio-auth-key, stremio-user-email, stremio-user-id
    authInst,       \* auth_key cached by each StremioAuthService instance
    addonInst,      \* auth_key cached by each StremioAddonService instance
    sessions,       \* remote: the session keys the server accepts
    remote,         \* remote: the account's addon collection
    server,         \* remote: "protocol" when every success answer has the documented shape, else "any"
    written,        \* history: collection of the last successful addonCollectionSet, if no other client wrote since
    last,           \* the last service call: what it sent, whether it raised, what it returned
    current_addons, \* PreferencesDialog.current_addons
    fetched,        \* history: the collection the panel fetched and displayed
    removed,        \* history: transportUrls of the descriptors remove_addon deleted from it
    saves,          \* the save tasks the panel handed to the background queue
    order,          \* history: the save tasks in the order they completed
    catalogInst,    \* auth_key cached by the StremioAddonService of the StremioCatalogService
    cat,            \* the last call of the catalog service: what it sent and what it returned
    pure,           \* a call of enable_addon / disable_addon / remove_addon: its arguments and its result
    dialog,         \* StremioLoginDialog: _is_loading, its login threads and queued completions
    panel,          \* PreferencesDialog, addon page: the state rows visible, the addon rows, the fetch tasks
    view            \* ContentView: its loaded flag, its cache, what it displays, its threads

svcVars == <<store, authInst, addonInst, sessions, remote, server, written, last>>

panelVars == <<current_addons, fetched, removed, saves, order>>

catVars == <<catalogInst, cat>>

uiVars == <<dialog, panel, view>>

vars == <<svcVars, panelVars, catVars, pure, uiVars>>

(***************************************************************************)
(* Values                                                                  *)
(***************************************************************************)
EmptyDict == [k \in {} |-> ""]
Null == [t |-> "null"]
Obj(v) == [t |-> "object", v |-> v]

\* Python None and the value of a slot no service object occupies yet
NoneKey == "None"
Unbuilt == "unbuilt"

Emails == {"a@x", "b@x"}
Keys == {"k1", "k2"}

AuthIds == {"button", "dialog"}
AddonIds == {"prefs"}

\* bool(x) of a cached auth_key: None and '' are falsy
Falsy(k) == k \in {"", NoneKey}

(***************************************************************************)
(* Credential store                                                        *)
(***************************************************************************)
EmptyStore == [auth_key |-> "", user_email |-> "", user_id |-> ""]

SaveAuthKey(s, k) == [s EXCEPT !.auth_key = k]

GetAuthKey(s) == s.auth_key

\* dict.get(key, default)
DictGet(d, k, default) == IF k \in DOMAIN d THEN d[k] ELSE default

\* bool(user) for the JSON values of the model: None and {} are falsy
Truthy(user) == user.t = "object" /\ DOMAIN user.v # {}

SaveUserData(s, user) ==
    IF Truthy(user)
    THEN [s EXCEPT !.user_email = DictGet(user.v, "email", ""),
                   !.user_id = DictGet(user.v, "_id", "")]
    ELSE s

GetUserEmail(s) == s.user_email

Clear(s) == [s EXCEPT !.auth_key = "", !.user_email = "", !.user_id = ""]

\* a check of the login state that always answers yes
IsLoggedInAlways(s) == TRUE

IsLoggedIn(s) == s.auth_key # ""

(***************************************************************************)
(* Remote API (api.strem.io), as the protocol describes it.  The server is *)
(* outside the program: every call may be answered by any of its           *)
(* responses, and a success answer is given only to a request the server   *)
(* performed.                                                              *)
(***************************************************************************)
KeyOf(email) == IF email = "a@x" THEN "k1" ELSE "k2"

UserOf(email) == [email |-> email, _id |-> IF email = "a@x" THEN "ida" ELSE "idb"]

UserOfKey(k) == IF k = "k1" THEN UserOf("a@x") ELSE UserOf("b@x")

NetFail(kind) == [net |-> kind]

Http(status, data) == [net |-> "ok", status |-> status, data |-> data]

\* a 200 response whose body is not JSON
HttpNoJson == [net |-> "ok", status |-> 200]

ErrString(m) == [t |-> "string", v |-> m]

\* the failures a call of the services may meet: timeout, connection failure,
\* non-200 status, error payload, response without a result
FailureResponses ==
    { NetFail("timeout"), NetFail("connection"),
      Http(500, EmptyDict),
      Http(200, [error |-> ErrString("Invalid credentials.")]),
      Http(200, EmptyDict) }

\* every shape of failure the call primitive tells apart
AllFailureResponses ==
    FailureResponses \cup
    { NetFail("request_exception"),
      HttpNoJson,
      Http(200, [error |-> Obj([message |-> "Session does not exist"])]),
      Http(200, [error |-> Obj(EmptyDict)]),
      Http(200, [error |-> ErrString("Invalid credentials."), result |-> EmptyDict]) }

Success(result) == Http(200, [result |-> result])

\* the server answered with a result and no error
Succeeded(resp) ==
    /\ resp.net = "ok"
    /\ resp.status = 200
    /\ "data" \in DOMAIN resp
    /\ "error" \notin DOMAIN resp.data
    /\ "result" \in DOMAIN resp.data

Authenticated(body, sess) == "authKey" \in DOMAIN body /\ body.authKey \in sess

\* results of POST /api/login: {authKey, user}, and the shapes a server that
\* does not keep to the protocol may give the same answer
LoginResults(email, kind) ==
    { [authKey |-> KeyOf(email), user |-> Obj(UserOf(email))] } \cup
    (IF kind = "protocol" THEN {}
     ELSE { [user |-> Obj(UserOf(email))],
            [authKey |-> KeyOf(email)],
            [authKey |-> KeyOf(email), user |-> Null],
            [authKey |-> KeyOf(email), user |-> Obj(EmptyDict)],
            [authKey |-> KeyOf(email), user |-> Obj([_id |-> UserOf(email)._id])] })

LoginResponses(body, kind) ==
    FailureResponses \cup {Success(r) : r \in LoginResults(body.email, kind)}

LogoutResponses(body, sess) ==
    FailureResponses \cup
    (IF Authenticated(body, sess) THEN {Success([success |-> TRUE])} ELSE {})

GetUserResults(k, kind) ==
    { [user |-> Obj(UserOfKey(k))] } \cup
    (IF kind = "protocol" THEN {} ELSE { [user |-> Null], EmptyDict })

GetUserResponses(body, sess, kind) ==
    FailureResponses \cup
    (IF Authenticated(body, sess)
     THEN {Success(r) : r \in GetUserResults(body.authKey, kind)}
     ELSE {})

\* the server's session table after it answered `resp` to `body`
ServerSessions(body, resp, sess) ==
    IF ~Succeeded(resp) THEN sess
    ELSE IF body.method = "login" THEN sess \cup {KeyOf(body.email)}
    ELSE IF body.method = "logout" THEN sess \ {body.authKey}
    ELSE sess

(***************************************************************************)
(* The remote call primitive shared by the two services                    *)
(***************************************************************************)
Raise(m) == [raised |-> TRUE, msg |-> m]

Return(v) == [raised |-> FALSE, result |-> v]

\* error_msg of an 'error' field: the string, or the nested message, or
\* str() of the dict
ErrorMessage(e) ==
    IF e.t = "object" THEN DictGet(e.v, "message", "str(error)") ELSE e.v

\* _request looking for the result before the error
RequestResultFirst(resp) ==
    IF resp.net = "timeout" THEN Raise("Request timed out")
    ELSE IF resp.net = "connection"
    THEN Raise("Connection error. Please check your internet connection.")
    ELSE IF resp.net = "request_exception" THEN Raise("Request failed: error")
    ELSE IF resp.status # 200 THEN Raise("Request failed with status code")
    ELSE IF "data" \notin DOMAIN resp THEN Raise("Request failed: invalid JSON")
    ELSE IF "result" \in DOMAIN resp.data THEN Return(resp.data.result)
    ELSE IF "error" \in DOMAIN resp.data THEN Raise(ErrorMessage(resp.data.error))
    ELSE Raise("Response has no result")

Request(resp) ==
    IF resp.net = "timeout" THEN Raise("Request timed out")
    ELSE IF resp.net = "connection"
    THEN Raise("Connection error. Please check your internet connection.")
    ELSE IF resp.net = "request_exception" THEN Raise("Request failed: error")
    ELSE IF resp.status # 200 THEN Raise("Request failed with status code")
    ELSE IF "data" \notin DOMAIN resp THEN Raise("Request failed: invalid JSON")
    ELSE IF "error" \in DOMAIN resp.data THEN Raise(ErrorMessage(resp.data.error))
    ELSE IF "result" \notin DOMAIN resp.data THEN Raise("Response has no result")
    ELSE Return(resp.data.result)

\* StremioAuthService: the key is attached when the cached key is truthy
AuthBody(auth_key, method, params) ==
    params @@ (IF Falsy(auth_key) THEN EmptyDict ELSE [authKey |-> auth_key])
           @@ [method |-> method]

\* StremioAddonService: the cached key is attached whatever it is
AddonBody(auth_key, method, params) ==
    params @@ [authKey |-> auth_key] @@ [method |-> method]

(***************************************************************************)
(* StremioAuthService                                                      *)
(***************************************************************************)
NoResponse == [net |-> "none"]

\* `stored` is the stored auth key when the call began
Called(op, arg, stored, sent, raised, ret) ==
    [op |-> op, arg |-> arg, stored |-> stored, sent |-> sent, raised |-> raised,
     ret |-> ret]

\* __init__ of either service: the key is read from the store once
CachedKey(s) == GetAuthKey(s)

AuthNew(a) ==
    /\ authInst' = [authInst EXCEPT ![a] = CachedKey(store)]
    /\ last' = Called("new", <<>>, GetAuthKey(store), <<>>, FALSE, <<>>)
    /\ UNCHANGED <<server, store, addonInst, sessions, remote, written, panelVars, catVars, pure, uiVars>>

\* login, after _request returned `req`: the instance's key, the store, and
\* whether login raises
LoginOutcome(auth_key, s, req) ==
    IF req.raised
    THEN [auth_key |-> auth_key, store |-> s, raised |-> TRUE, msg |-> req.msg, ret |-> <<>>]
    ELSE LET result == req.result
             hasKey == "authKey" \in DOMAIN result
             k1 == IF hasKey THEN result.authKey ELSE auth_key
             s1 == IF hasKey THEN SaveAuthKey(s, result.authKey) ELSE s
         IN  IF "user" \notin DOMAIN result
             THEN [auth_key |-> k1, store |-> s1, raised |-> FALSE, msg |-> "",
                   ret |-> <<result>>]
             ELSE LET s2 == SaveUserData(s1, result.user)
                  IN  IF result.user.t # "object"
                      THEN \* result['user'].get(...) in the log line
                           [auth_key |-> k1, store |-> s2, raised |-> TRUE,
                            msg |-> "AttributeError", ret |-> <<>>]
                      ELSE [auth_key |-> k1, store |-> s2, raised |-> FALSE, msg |-> "",
                            ret |-> <<result>>]

\* the body of the login request of instance a
LoginBody(a, email) == AuthBody(authInst[a], "login", [email |-> email, password |-> "pw"])

\* login(email, password) on instance a, its request answered with resp: one
\* login request and what its answer does to the instance and the store
LoginAs(a, email, resp) ==
    /\ authInst[a] # Unbuilt
    /\ resp \in LoginResponses(LoginBody(a, email), server)
    /\ LET out == LoginOutcome(authInst[a], store, Request(resp))
       IN  /\ store' = out.store
           /\ authInst' = [authInst EXCEPT ![a] = out.auth_key]
           /\ sessions' = ServerSessions(LoginBody(a, email), resp, sessions)
           /\ last' = Called("login", <<email>>, GetAuthKey(store), <<LoginBody(a, email)>>,
                             out.raised, out.ret)
    /\ UNCHANGED <<server, addonInst, remote, written, panelVars, catVars, pure>>

Login(a) ==
    /\ \E email \in Emails :
          \E resp \in LoginResponses(LoginBody(a, email), server) : LoginAs(a, email, resp)
    /\ UNCHANGED uiVars

\* logout calls the API only when the cached key is truthy
LogoutSends(auth_key) == ~Falsy(auth_key)

\* logout without its try / finally: a failed API call leaves the method early
LogoutOutcomeNoFinally(auth_key, s, req) ==
    IF req.raised
    THEN [auth_key |-> auth_key, store |-> s, raised |-> TRUE, msg |-> req.msg]
    ELSE [auth_key |-> NoneKey, store |-> Clear(s), raised |-> FALSE, msg |-> ""]

\* logout, after the try block ended with `req` (swallowed when it raised)
LogoutOutcome(auth_key, s, req) ==
    [auth_key |-> NoneKey, store |-> Clear(s), raised |-> FALSE, msg |-> ""]

Logout(a) ==
    /\ authInst[a] # Unbuilt
    /\ LET body == AuthBody(authInst[a], "logout", EmptyDict)
           sends == LogoutSends(authInst[a])
       IN  \E resp \in (IF sends THEN LogoutResponses(body, sessions) ELSE {NoResponse}) :
              LET req == IF sends THEN Request(resp) ELSE Return(EmptyDict)
                  out == LogoutOutcome(authInst[a], store, req)
              IN  /\ store' = out.store
                  /\ authInst' = [authInst EXCEPT ![a] = out.auth_key]
                  /\ sessions' = IF sends THEN ServerSessions(body, resp, sessions) ELSE sessions
                  /\ last' = Called("logout", <<>>, GetAuthKey(store), IF sends THEN <<body>> ELSE <<>>,
                                    out.raised, <<>>)
    /\ UNCHANGED <<server, addonInst, remote, written, panelVars, catVars, pure, uiVars>>

\* get_user, after _request returned `req`
GetUserOutcome(s, req) ==
    IF req.raised
    THEN [store |-> s, raised |-> TRUE, msg |-> req.msg, ret |-> <<>>]
    ELSE LET result == req.result
         IN  IF "user" \in DOMAIN result
             THEN [store |-> SaveUserData(s, result.user), raised |-> FALSE, msg |-> "",
                   ret |-> <<result.user>>]
             ELSE [store |-> s, raised |-> FALSE, msg |-> "", ret |-> <<Null>>]

GetUser(a) ==
    /\ authInst[a] # Unbuilt
    /\ IF Falsy(authInst[a])
       THEN /\ last' = Called("get_user", <<>>, GetAuthKey(store), <<>>, FALSE, <<Null>>)
            /\ UNCHANGED <<store, sessions>>
       ELSE LET body == AuthBody(authInst[a], "getUser", EmptyDict)
            IN  \E resp \in GetUserResponses(body, sessions, server) :
                   LET out == GetUserOutcome(store, Request(resp))
                   IN  /\ store' = out.store
                       /\ sessions' = ServerSessions(body, resp, sessions)
                       /\ last' = Called("get_user", <<>>, GetAuthKey(store), <<body>>,
                                         out.raised, out.ret)
    /\ UNCHANGED <<server, authInst, addonInst, remote, written, panelVars, catVars, pure, uiVars>>

(***************************************************************************)
(* StremioAddonService                                                     *)
(***************************************************************************)
List(c) == [t |-> "list", v |-> c]

AddonA == [transportUrl |-> "https://a", manifest |-> [id |-> "a", version |-> "1"]]

AddonB == [transportUrl |-> "https://b", manifest |-> [id |-> "b", version |-> "1"],
           enabled |-> FALSE]

\* the collections the callers of this model save
Collections == { <<>>, <<AddonA>>, <<AddonA, AddonB>>, <<AddonB, AddonA>> }

Urls(c) == [i \in 1..Len(c) |-> c[i].transportUrl]

\* addonCollectionGet with update: true lets the server refresh the manifests
\* it has cached
Refreshed(c) ==
    [i \in 1..Len(c) |->
        IF "manifest" \in DOMAIN c[i] /\ "version" \in DOMAIN c[i].manifest
        THEN [c[i] EXCEPT !.manifest = [@ EXCEPT !.version = "2"]]
        ELSE c[i]]

GetCollectionResults(rem) ==
    { [addons |-> List(rem)], [addons |-> List(Refreshed(rem))], [addons |-> Null], EmptyDict }

GetCollectionResponses(body, sess, rem) ==
    FailureResponses \cup
    (IF Authenticated(body, sess) THEN {Success(r) : r \in GetCollectionResults(rem)} ELSE {})

SetCollectionResponses(body, sess) ==
    FailureResponses \cup
    (IF Authenticated(body, sess) THEN {Success([success |-> TRUE])} ELSE {})

\* the account's collection after the server answered `resp` to `body`
ServerCollection(body, resp, rem) ==
    IF Succeeded(resp) /\ body.method = "addonCollectionSet" THEN body.addons ELSE rem

AddonNew(d) ==
    /\ addonInst' = [addonInst EXCEPT ![d] = CachedKey(store)]
    /\ last' = Called("new", <<>>, GetAuthKey(store), <<>>, FALSE, <<>>)
    /\ UNCHANGED <<server, store, authInst, sessions, remote, written, panelVars, catVars, pure, uiVars>>

\* the guard of get_addon_collection and set_addon_collection
NotAuthenticated(auth_key) == Falsy(auth_key)

GetCollectionParams == [update |-> TRUE, addFromURL |-> <<>>]

\* a fetch that hands back the enabled addons only
GetCollectionOutcomeEnabledOnly(req) ==
    IF req.raised
    THEN [raised |-> TRUE, msg |-> req.msg, ret |-> <<>>]
    ELSE LET addons == DictGet(req.result, "addons", Null)
         IN  IF addons.t # "list"
             THEN [raised |-> TRUE, msg |-> "Invalid addon collection response", ret |-> <<>>]
             ELSE [raised |-> FALSE, msg |-> "",
                   ret |-> <<SelectSeq(addons.v, LAMBDA a : DictGet(a, "enabled", TRUE))>>]

\* get_addon_collection, after _request returned `req`
GetCollectionOutcome(req) ==
    IF req.raised
    THEN [raised |-> TRUE, msg |-> req.msg, ret |-> <<>>]
    ELSE LET addons == DictGet(req.result, "addons", Null)
         IN  IF addons.t # "list"
             THEN [raised |-> TRUE, msg |-> "Invalid addon collection response", ret |-> <<>>]
             ELSE [raised |-> FALSE, msg |-> "", ret |-> <<addons.v>>]

GetAddonCollection(d) ==
    /\ addonInst[d] # Unbuilt
    /\ IF NotAuthenticated(addonInst[d])
       THEN /\ last' = Called("get_addon_collection", <<>>, GetAuthKey(store), <<>>, TRUE, <<>>)
       ELSE LET body == AddonBody(addonInst[d], "addonCollectionGet", GetCollectionParams)
            IN  \E resp \in GetCollectionResponses(body, sessions, remote) :
                   LET out == GetCollectionOutcome(Request(resp))
                   IN  last' = Called("get_addon_collection", <<>>, GetAuthKey(store), <<body>>,
                                      out.raised, out.ret)
    /\ UNCHANGED <<server, store, authInst, addonInst, sessions, remote, written, panelVars, catVars, pure, uiVars>>

\* get_addon_collection of an addon service whose cached key is auth_key,
\* answered with `resp` when it sends: the request sent and the outcome
FetchCollection(auth_key, resp) ==
    IF NotAuthenticated(auth_key)
    THEN [sent |-> <<>>, raised |-> TRUE, ret |-> <<>>]
    ELSE LET out == GetCollectionOutcome(Request(resp))
         IN  [sent |-> <<AddonBody(auth_key, "addonCollectionGet", GetCollectionParams)>>,
              raised |-> out.raised, ret |-> out.ret]

\* a save that leaves out the disabled addons
SetCollectionParamsEnabledOnly(addons) ==
    [addons |-> SelectSeq(addons, LAMBDA a : DictGet(a, "enabled", TRUE))]

SetCollectionParams(addons) == [addons |-> addons]

SetAddonCollection(d, addons) ==
    /\ addonInst[d] # Unbuilt
    /\ IF NotAuthenticated(addonInst[d])
       THEN /\ last' = Called("set_addon_collection", <<addons>>, GetAuthKey(store), <<>>, TRUE, <<>>)
            /\ UNCHANGED <<remote, written>>
       ELSE LET body == AddonBody(addonInst[d], "addonCollectionSet", SetCollectionParams(addons))
            IN  \E resp \in SetCollectionResponses(body, sessions) :
                   LET req == Request(resp)
                   IN  /\ remote' = ServerCollection(body, resp, remote)
                       /\ written' = IF Succeeded(resp) THEN <<addons>> ELSE written
                       /\ last' = Called("set_addon_collection", <<addons>>, GetAuthKey(store), <<body>>,
                                         req.raised, <<>>)
    /\ UNCHANGED <<server, store, authInst, addonInst, sessions, panelVars, catVars, pure, uiVars>>

\* another client of the same account replaces the collection
OtherClientWrites(c) ==
    /\ remote # c
    /\ remote' = c
    /\ written' = <<>>
    /\ last' = Called("other_client", <<c>>, GetAuthKey(store), <<>>, FALSE, <<>>)
    /\ UNCHANGED <<server, store, authInst, addonInst, sessions, panelVars, catVars, pure, uiVars>>

(***************************************************************************)
(* The services and the server                                             *)
(***************************************************************************)
InitWith(kind) ==
    /\ server = kind
    /\ store = EmptyStore
    /\ authInst = [a \in AuthIds |-> Unbuilt]
    /\ addonInst = [d \in AddonIds |-> Unbuilt]
    /\ sessions = {}
    /\ remote = <<>>
    /\ written = <<>>
    /\ last = Called("init", <<>>, "", <<>>, FALSE, <<>>)

NoCall == [op |-> "none", addons |-> <<>>, index |-> 0, out |-> <<>>]

\* no StremioCatalogService built, none of its methods called
NoCatalogCall == [op |-> "none"]

CatalogIdle ==
    /\ catalogInst = Unbuilt
    /\ cat = NoCatalogCall

PanelIdle ==
    /\ current_addons = <<>>
    /\ fetched = <<>>
    /\ removed = {}
    /\ saves = <<>>
    /\ order = <<>>

\* no login dialog open
NoDialog == [open |-> FALSE]

\* the addon page of the preferences not built
NoPanel == [built |-> FALSE]

NoView == [built |-> FALSE]

UiIdle ==
    /\ dialog = NoDialog
    /\ panel = NoPanel
    /\ view = NoView

Init == InitWith("protocol") /\ PanelIdle /\ CatalogIdle /\ UiIdle /\ pure = NoCall

InitAnyServer == InitWith("any") /\ PanelIdle /\ CatalogIdle /\ UiIdle /\ pure = NoCall

\* the services, called in any order on any instance
Next ==
    \/ \E a \in AuthIds : AuthNew(a)
    \/ \E a \in AuthIds : Login(a)
    \/ \E a \in AuthIds : Logout(a)
    \/ \E a \in AuthIds : GetUser(a)
    \/ \E d \in AddonIds : AddonNew(d)
    \/ \E d \in AddonIds : GetAddonCollection(d)
    \/ \E d \in AddonIds, c \in Collections : SetAddonCollection(d, c)
    \/ \E c \in Collections : OtherClientWrites(c)

Spec == Init /\ [][Next]_vars

\* the same calls against a server whose success answers need not have the
\* documented shape
NextAuth ==
    \/ \E a \in AuthIds : AuthNew(a)
    \/ \E a \in AuthIds : Login(a)
    \/ \E a \in AuthIds : Logout(a)
    \/ \E a \in AuthIds : GetUser(a)

SpecAnyServer == InitAnyServer /\ [][NextAuth]_vars

(***************************************************************************)
(* enable_addon / disable_addon / remove_addon                             *)
(***************************************************************************)
\* d[k] = v on a dict
DictSet(d, k, v) == [x \in DOMAIN d \cup {k} |-> IF x = k THEN v ELSE d[x]]

\* the bound check of enable_addon with its lower bound off by one
InRangeFromOne(addons, addon_index) == 0 < addon_index /\ addon_index < Len(addons)

\* 0 <= addon_index < len(addons)
InRange(addons, addon_index) == 0 <= addon_index /\ addon_index < Len(addons)

\* enable_addon moving the enabled addon to the front of the collection
EnableAddonToFront(addons, addon_index) ==
    IF InRange(addons, addon_index)
    THEN <<DictSet(addons[addon_index + 1], "enabled", TRUE)>>
            \o SubSeq(addons, 1, addon_index)
            \o SubSeq(addons, addon_index + 2, Len(addons))
    ELSE addons

EnableAddon(addons, addon_index) ==
    IF InRange(addons, addon_index)
    THEN [addons EXCEPT ![addon_index + 1] = DictSet(@, "enabled", TRUE)]
    ELSE addons

\* disable_addon putting a new descriptor with the flag in place of the element
DisableAddonNewDescriptor(addons, addon_index) ==
    IF InRange(addons, addon_index)
    THEN [addons EXCEPT ![addon_index + 1] =
             [transportUrl |-> @.transportUrl, enabled |-> FALSE]]
    ELSE addons

DisableAddon(addons, addon_index) ==
    IF InRange(addons, addon_index)
    THEN [addons EXCEPT ![addon_index + 1] = DictSet(@, "enabled", FALSE)]
    ELSE addons

\* remove_addon without the lower bound of its check: addons.pop(-1) drops the
\* last element
RemoveAddonNegativeIndex(addons, addon_index) ==
    LET i == IF addon_index < 0 THEN addon_index + Len(addons) ELSE addon_index
    IN  IF 0 <= i /\ i < Len(addons)
        THEN SubSeq(addons, 1, i) \o SubSeq(addons, i + 2, Len(addons))
        ELSE addons

\* remove_addon popping the last element instead of the indexed one
RemoveAddonLast(addons, addon_index) ==
    IF InRange(addons, addon_index)
    THEN SubSeq(addons, 1, Len(addons) - 1)
    ELSE addons

\* addons.pop(addon_index)
RemoveAddon(addons, addon_index) ==
    IF InRange(addons, addon_index)
    THEN SubSeq(addons, 1, addon_index) \o SubSeq(addons, addon_index + 2, Len(addons))
    ELSE addons

MaxLen == 2

Descriptors ==
    LET base == { [transportUrl |-> u, manifest |-> [id |-> u, version |-> "1"]] :
                     u \in {"https://a", "https://b"} }
    IN  base \cup { DictSet(b, "enabled", e) : b \in base, e \in BOOLEAN }

SeqsUpTo(S, n) == UNION { [1..k -> S] : k \in 0..n }

\* a call of enable_addon or disable_addon on any collection and any index,
\* in range or not
InitPure ==
    /\ InitWith("protocol")
    /\ PanelIdle
    /\ UiIdle
    /\ CatalogIdle
    /\ pure \in [op : {"none"}, addons : SeqsUpTo(Descriptors, MaxLen),
                 index : -1..(MaxLen + 1), out : {<<>>}]

CallEnable ==
    /\ pure.op = "none"
    /\ pure' = [pure EXCEPT !.op = "enable_addon",
                            !.out = <<EnableAddon(pure.addons, pure.index)>>]
    /\ UNCHANGED <<svcVars, panelVars, catVars, uiVars>>

CallDisable ==
    /\ pure.op = "none"
    /\ pure' = [pure EXCEPT !.op = "disable_addon",
                            !.out = <<DisableAddon(pure.addons, pure.index)>>]
    /\ UNCHANGED <<svcVars, panelVars, catVars, uiVars>>

CallRemove ==
    /\ pure.op = "none"
    /\ pure' = [pure EXCEPT !.op = "remove_addon",
                            !.out = <<RemoveAddon(pure.addons, pure.index)>>]
    /\ UNCHANGED <<svcVars, panelVars, catVars, uiVars>>

NextPure == CallEnable \/ CallDisable \/ CallRemove

SpecPure == InitPure /\ [][NextPure]_vars

(***************************************************************************)
(* _request on every answer                                                *)
(***************************************************************************)
\* the bodies of an answer: every combination of an error field (absent, a
\* string, an object with or without message) and a result field
Envelopes ==
    { e @@ r : e \in { EmptyDict,
                       [error |-> ErrString("Invalid credentials.")],
                       [error |-> Obj([message |-> "Session does not exist"])],
                       [error |-> Obj(EmptyDict)] },
               r \in { EmptyDict, [result |-> EmptyDict],
                       [result |-> [success |-> TRUE]] } }

\* every answer POST /api/{method} may get
EnvelopeResponses ==
    AllFailureResponses
      \cup { Http(st, b) : st \in {200, 401, 500}, b \in Envelopes }
      \cup { [net |-> "ok", status |-> st] : st \in {401, 500} }

\* the service whose _request is called, and the answer its request gets
InitRequest ==
    /\ InitWith("protocol")
    /\ PanelIdle
    /\ UiIdle
    /\ CatalogIdle
    /\ pure \in [op : {"none"}, service : {"StremioAuthService", "StremioAddonService"},
                 resp : EnvelopeResponses, out : {<<>>}]

\* _request from the answer on (lines 56-77 of both services)
CallRequest ==
    /\ pure.op = "none"
    /\ pure' = [pure EXCEPT !.op = "_request", !.out = <<Request(pure.resp)>>]
    /\ UNCHANGED <<svcVars, panelVars, catVars, uiVars>>

NextRequest == CallRequest

SpecRequest == InitRequest /\ [][NextRequest]_vars

(***************************************************************************)
(* PreferencesDialog: loading the addon page.  `panel` holds which of the  *)
(* four state rows are visible, the addon rows with the index bound to     *)
(* each, the fetch tasks handed to the background queue (`queued`, then    *)
(* `fetched` once fetch_task ended, then `done` once _on_addons_loaded     *)
(* ran), the number of _load_addons calls, and the last handler that ran.  *)
(***************************************************************************)
MaxLoads == 3

StateRows == {"login_prompt", "loading", "error", "empty"}

\* _show_addon_loading forgetting the error row
ShowOnlyKeepError(p, row) ==
    [p EXCEPT !.login_prompt = (row = "login_prompt"), !.loading = (row = "loading"),
              !.error = IF row = "loading" THEN @ ELSE (row = "error"),
              !.empty = (row = "empty")]

\* _show_addon_login_prompt, _show_addon_loading, _show_addon_error and
\* _show_addon_empty_state: the four set_visible calls of each
ShowOnly(p, row) ==
    [p EXCEPT !.login_prompt = (row = "login_prompt"), !.loading = (row = "loading"),
              !.error = (row = "error"), !.empty = (row = "empty")]

\* manifest.get(...) works on the manifest of the descriptor
Displayable(addon) == DictGet(addon, "manifest", EmptyDict) # Null

\* _display_addons showing the first addon only
DisplayAddonsFirstOnly(p, addons) ==
    [panel |-> [ShowOnly(p, "none") EXCEPT
                   !.rows = IF addons = <<>> THEN <<>>
                            ELSE <<[index |-> 0, addon |-> addons[1]]>>],
     raised |-> FALSE]

\* _display_addons: the old rows cleared, the four state rows hidden, one row
\* for each addon with its index bound to the switch and the remove button,
\* up to the first descriptor the loop raises on
DisplayAddons(p, addons) ==
    LET bad == { i \in 1..Len(addons) : ~Displayable(addons[i]) }
        n == IF bad = {} THEN Len(addons)
             ELSE (CHOOSE i \in bad : \A j \in bad : i <= j) - 1
    IN  [panel |-> [ShowOnly(p, "none") EXCEPT
                       !.rows = [i \in 1..n |-> [index |-> i - 1, addon |-> addons[i]]]],
         raised |-> bad # {}]

LoadTask(state, raised, ret) == [state |-> state, raised |-> raised, ret |-> ret]

PanelEvent(name, task, stored) == [name |-> name, task |-> task, stored |-> stored]

\* _load_addons (lines 420-446) on panel p, the stored key being auth_key
LoadAddons(p, auth_key) ==
    IF ~IsLoggedIn([EmptyStore EXCEPT !.auth_key = auth_key])
    THEN [ShowOnly(p, "login_prompt") EXCEPT
             !.calls = @ + 1, !.event = PanelEvent("load", 0, auth_key)]
    ELSE [ShowOnly(p, "loading") EXCEPT
             !.calls = @ + 1,
             !.loads = Append(@, LoadTask("queued", FALSE, <<>>)),
             !.event = PanelEvent("load", Len(p.loads) + 1, auth_key)]

\* the addon page as the template builds it: no state row visible, no addon
\* row
FreshPanel ==
    [built |-> TRUE, login_prompt |-> FALSE, loading |-> FALSE, error |-> FALSE,
     empty |-> FALSE, rows |-> <<>>, loads |-> <<>>, calls |-> 0,
     event |-> PanelEvent("new", 0, "")]

\* PreferencesDialog.__init__ (lines 60-64, 96): the services, the empty
\* collection, and the first _load_addons
PanelNew ==
    /\ ~panel.built
    /\ addonInst' = [addonInst EXCEPT !["prefs"] = CachedKey(store)]
    /\ current_addons' = <<>>
    /\ panel' = LoadAddons(FreshPanel, GetAuthKey(store))
    /\ last' = Called("new", <<>>, GetAuthKey(store), <<>>, FALSE, <<>>)
    /\ UNCHANGED <<server, store, authInst, sessions, remote, written, fetched, removed,
                   saves, order, catVars, pure, dialog, view>>

\* _on_addon_retry_clicked: the retry button of the error row and of the
\* empty row
OnAddonRetryClicked ==
    /\ panel.built
    /\ panel.error \/ panel.empty
    /\ panel.calls < MaxLoads
    /\ panel' = LoadAddons(panel, GetAuthKey(store))
    /\ UNCHANGED <<svcVars, panelVars, catVars, pure, dialog, view>>

\* _on_login_success: the login dialog opened from the login prompt signals a
\* login that succeeded
OnLoginSuccess ==
    /\ panel.built
    /\ panel.login_prompt
    /\ last.op = "login" /\ ~last.raised
    /\ panel.calls < MaxLoads
    /\ panel' = LoadAddons(panel, GetAuthKey(store))
    /\ UNCHANGED <<svcVars, panelVars, catVars, pure, dialog, view>>

\* fetch_task on its worker (lines 434-439): get_addon_collection, its result
\* assigned to current_addons, its exception raised to the queue
FetchTask(t) ==
    /\ panel.built
    /\ t \in DOMAIN panel.loads
    /\ panel.loads[t].state = "queued"
    /\ \E resp \in (IF NotAuthenticated(addonInst["prefs"]) THEN {NoResponse}
                    ELSE GetCollectionResponses(
                             AddonBody(addonInst["prefs"], "addonCollectionGet",
                                       GetCollectionParams), sessions, remote)) :
          LET out == FetchCollection(addonInst["prefs"], resp)
          IN  /\ current_addons' = IF out.raised THEN current_addons ELSE out.ret[1]
              /\ panel' = [panel EXCEPT
                              !.loads[t] = LoadTask("fetched", out.raised, out.ret),
                              !.event = PanelEvent("fetch", t, GetAuthKey(store))]
              /\ last' = Called("get_addon_collection", <<>>, GetAuthKey(store), out.sent,
                                out.raised, out.ret)
    /\ UNCHANGED <<server, store, authInst, addonInst, sessions, remote, written, fetched,
                   removed, saves, order, catVars, pure, dialog, view>>

\* _on_addons_loaded (lines 448-465), the completion the queue calls on the
\* control thread once the task ended, whether it returned or raised
OnAddonsLoaded(t) ==
    /\ panel.built
    /\ t \in DOMAIN panel.loads
    /\ panel.loads[t].state = "fetched"
    /\ LET shown == IF Len(current_addons) = 0
                    THEN [panel |-> ShowOnly(panel, "empty"), raised |-> FALSE]
                    ELSE DisplayAddons(panel, current_addons)
           p == IF shown.raised THEN ShowOnly(shown.panel, "error") ELSE shown.panel
       IN  panel' = [p EXCEPT !.loads[t].state = "done",
                              !.event = PanelEvent("loaded", t, GetAuthKey(store))]
    /\ UNCHANGED <<svcVars, panelVars, catVars, pure, dialog, view>>

\* the collections of the account: none, one and two addons, and one with a
\* descriptor whose manifest is null
LoadCollections ==
    { <<>>, <<AddonA>>, <<AddonA, AddonB>>,
      <<AddonB, [transportUrl |-> "https://c", manifest |-> Null]>> }

\* the application before the preferences are opened: logged out, or logged
\* in through the login dialog, the account button built at start
InitLoad ==
    /\ server = "protocol"
    /\ \E logged_in \in BOOLEAN :
          /\ store = IF logged_in
                     THEN [auth_key |-> "k1", user_email |-> "a@x", user_id |-> "ida"]
                     ELSE EmptyStore
          /\ authInst = [a \in AuthIds |-> IF a = "dialog" /\ logged_in THEN "k1" ELSE ""]
          /\ sessions = IF logged_in THEN {"k1"} ELSE {}
    /\ addonInst = [d \in AddonIds |-> Unbuilt]
    /\ remote \in LoadCollections
    /\ written = <<>>
    /\ last = Called("init", <<>>, "", <<>>, FALSE, <<>>)
    /\ PanelIdle
    /\ CatalogIdle
    /\ UiIdle
    /\ pure = NoCall

NextLoad ==
    \/ PanelNew
    \/ OnAddonRetryClicked
    \/ OnLoginSuccess
    \/ \E t \in 1..MaxLoads : FetchTask(t)
    \/ \E t \in 1..MaxLoads : OnAddonsLoaded(t)
    \/ Login("dialog")
    \/ Logout("button")

\* the addon page from its construction on, with logins and logouts in
\* between
SpecLoad == InitLoad /\ [][NextLoad]_vars

\* the same, with what the queue and the main loop guarantee: a task that was
\* queued runs, and the completion of a task that ended is called
SpecLoadFair ==
    /\ SpecLoad
    /\ \A t \in 1..MaxLoads : WF_vars(FetchTask(t)) /\ WF_vars(OnAddonsLoaded(t))

(***************************************************************************)
(* PreferencesDialog: the addon panel and its saves.  The background queue *)
(* runs every task on a worker of its own; a save is `queued` until its    *)
(* worker calls set_addon_collection, `sent` while the request is with the *)
(* server, and `done` or `failed` once the server's answer completed it.   *)
(***************************************************************************)
MaxSaves == 2

SaveTask(state, arg, body, raced) ==
    [state |-> state, arg |-> arg, body |-> body, raced |-> raced]

\* BackgroundQueue.add(activity, on_done)
QueueAdd(queue) == Append(queue, SaveTask("queued", <<>>, <<>>, FALSE))

\* the panel of a user who signed in through the login dialog and then opened
\* the preferences, once the fetched collection is displayed
InitPanel ==
    /\ server = "protocol"
    /\ store = [auth_key |-> "k1", user_email |-> "a@x", user_id |-> "ida"]
    /\ authInst = [a \in AuthIds |-> IF a = "dialog" THEN "k1" ELSE ""]
    /\ addonInst = [d \in AddonIds |-> "k1"]
    /\ sessions = {"k1"}
    /\ remote \in Collections \ {<<>>}
    /\ written = <<>>
    /\ last = Called("get_addon_collection", <<>>, "k1",
                     <<AddonBody("k1", "addonCollectionGet", GetCollectionParams)>>,
                     FALSE, <<remote>>)
    /\ CatalogIdle
    /\ dialog = NoDialog
    /\ view = NoView
    /\ panel = DisplayAddons([FreshPanel EXCEPT
                                 !.loads = <<LoadTask("done", FALSE, <<remote>>)>>,
                                 !.calls = 1,
                                 !.event = PanelEvent("loaded", 1, "k1")], remote).panel
    /\ current_addons = remote
    /\ fetched = remote
    /\ removed = {}
    /\ saves = <<>>
    /\ order = <<>>
    /\ pure = NoCall

\* _save_addon_changes
SaveAddonChanges(queue) == QueueAdd(queue)

\* _on_addon_toggle: the switch connected with `index` changed to
\* `is_enabled`.  The handler takes the index its switch was connected with
\* and does not check it; indices no current element has are included.
OnAddonToggle(index, is_enabled) ==
    /\ Len(saves) < MaxSaves
    /\ InRange(current_addons, index) =>
           is_enabled = ~DictGet(current_addons[index + 1], "enabled", TRUE)
    /\ current_addons' = IF is_enabled
                         THEN EnableAddon(current_addons, index)
                         ELSE DisableAddon(current_addons, index)
    /\ saves' = SaveAddonChanges(saves)
    /\ UNCHANGED <<svcVars, catVars, fetched, removed, order, pure, uiVars>>

\* _on_remove_addon_response with response 'remove'
OnRemoveAddonResponse(index) ==
    /\ Len(saves) < MaxSaves
    /\ current_addons' = RemoveAddon(current_addons, index)
    /\ removed' = IF InRange(current_addons, index)
                  THEN removed \cup {current_addons[index + 1].transportUrl}
                  ELSE removed
    /\ saves' = SaveAddonChanges(saves)
    /\ panel' = DisplayAddons(panel, current_addons').panel
    /\ UNCHANGED <<svcVars, catVars, fetched, order, pure, dialog, view>>

\* save_task on its worker: set_addon_collection(self.current_addons) up to
\* the moment the request is on its way
SaveTaskStart(t) ==
    /\ saves[t].state = "queued"
    /\ saves' =
          IF NotAuthenticated(addonInst["prefs"])
          THEN [saves EXCEPT ![t] = SaveTask("failed", <<current_addons>>, <<>>, FALSE)]
          ELSE [saves EXCEPT ![t] =
                   SaveTask("sent", <<current_addons>>,
                            <<AddonBody(addonInst["prefs"], "addonCollectionSet",
                                        SetCollectionParams(current_addons))>>,
                            \E u \in DOMAIN saves : u # t /\ saves[u].state = "sent")]
    /\ order' = IF NotAuthenticated(addonInst["prefs"]) THEN Append(order, t) ELSE order
    /\ UNCHANGED <<svcVars, catVars, current_addons, fetched, removed, pure, uiVars>>

\* the server answers the request of save t, which completes the save
SaveTaskFinish(t) ==
    /\ saves[t].state = "sent"
    /\ \E resp \in SetCollectionResponses(saves[t].body[1], sessions) :
          /\ remote' = ServerCollection(saves[t].body[1], resp, remote)
          /\ written' = IF Succeeded(resp) THEN saves[t].arg ELSE written
          /\ saves' = [saves EXCEPT ![t].state =
                          IF Request(resp).raised THEN "failed" ELSE "done"]
    /\ order' = Append(order, t)
    /\ UNCHANGED <<store, authInst, addonInst, sessions, server, last, current_addons, fetched,
                   removed, catVars, pure, uiVars>>

NextPanel ==
    \/ \E i \in -1..MaxLen, e \in BOOLEAN : OnAddonToggle(i, e)
    \/ \E i \in -1..MaxLen : OnRemoveAddonResponse(i)
    \/ \E t \in DOMAIN saves : SaveTaskStart(t)
    \/ \E t \in DOMAIN saves : SaveTaskFinish(t)

SpecPanel == InitPanel /\ [][NextPanel]_vars

(***************************************************************************)
(* PreferencesDialog: the addon page with its loads, its rows and its      *)
(* saves together.  A toggle or a remove comes from a row that is shown    *)
(* and carries the index bound to that row.                                *)
(***************************************************************************)
\* the preferences closed and opened again: PreferencesDialog.__init__ of a
\* new dialog, while the tasks the queue still holds go on.  The tasks of the
\* old dialog that did not yet read its collection are left out.
PanelReopen ==
    /\ panel.built
    /\ panel.calls < MaxLoads
    /\ \A t \in DOMAIN saves : saves[t].state # "queued"
    /\ \A t \in DOMAIN panel.loads : panel.loads[t].state = "done"
    /\ addonInst' = [addonInst EXCEPT !["prefs"] = CachedKey(store)]
    /\ current_addons' = <<>>
    /\ panel' = LoadAddons([FreshPanel EXCEPT !.calls = panel.calls], GetAuthKey(store))
    /\ last' = Called("new", <<>>, GetAuthKey(store), <<>>, FALSE, <<>>)
    /\ UNCHANGED <<server, store, authInst, sessions, remote, written, fetched, removed,
                   saves, order, catVars, pure, dialog, view>>

NextPage ==
    \/ PanelNew
    \/ PanelReopen
    \/ OnAddonRetryClicked
    \/ \E t \in 1..MaxLoads : FetchTask(t)
    \/ \E t \in 1..MaxLoads : OnAddonsLoaded(t)
    \/ \E r \in 1..MaxLen, e \in BOOLEAN :
          panel.built /\ r \in DOMAIN panel.rows /\ OnAddonToggle(panel.rows[r].index, e)
    \/ \E r \in 1..MaxLen :
          /\ panel.built /\ r \in DOMAIN panel.rows
          \* _on_addon_remove (line 620) reads current_addons[index] before it asks
          /\ InRange(current_addons, panel.rows[r].index)
          /\ OnRemoveAddonResponse(panel.rows[r].index)
    \/ \E t \in 1..MaxSaves : t \in DOMAIN saves /\ SaveTaskStart(t)
    \/ \E t \in 1..MaxSaves : t \in DOMAIN saves /\ SaveTaskFinish(t)
    \/ OtherClientWrites(<<>>)

SpecPage == InitLoad /\ [][NextPage]_vars

(***************************************************************************)
(* StremioCatalogService: discovery of the catalogs of a content type      *)
(***************************************************************************)
ContentTypes == {"movie", "series"}

Str(v) == [t |-> "string", v |-> v]

Range(q) == { q[i] : i \in 1..Len(q) }

\* `content_type not in resource_types` is evaluated: a list is searched,
\* None raises TypeError
Searchable(resource_types) == resource_types.t = "list"

\* the loop over the resources giving up at the first catalog object that does
\* not support the content type
ResourceStepFirstOnly(resource, manifest, content_type) ==
    IF resource.t = "string"
    THEN IF resource.v = "catalog" THEN "match" ELSE "skip"
    ELSE IF resource.t = "object" /\ DictGet(resource.v, "name", NoneKey) = "catalog"
    THEN LET resource_types ==
                 DictGet(resource.v, "types", DictGet(manifest, "types", List(<<>>)))
         IN  IF ~Searchable(resource_types) THEN "raise"
             ELSE IF content_type \notin Range(resource_types.v) THEN "none"
             ELSE "match"
    ELSE "skip"

\* one turn of the loop over manifest['resources'] (lines 62-72): the loop
\* breaks with has_catalog set ("match"), goes on ("skip"), or an exception
\* leaves it ("raise")
ResourceStep(resource, manifest, content_type) ==
    IF resource.t = "string"
    THEN IF resource.v = "catalog" THEN "match" ELSE "skip"
    ELSE IF resource.t = "object" /\ DictGet(resource.v, "name", NoneKey) = "catalog"
    THEN LET resource_types ==
                 DictGet(resource.v, "types", DictGet(manifest, "types", List(<<>>)))
         IN  IF ~Searchable(resource_types) THEN "raise"
             ELSE IF content_type \notin Range(resource_types.v) THEN "skip"
             ELSE "match"
    ELSE "skip"

RECURSIVE ScanResources(_, _, _, _)
\* the loop over the resources from position i on
ScanResources(resources, i, manifest, content_type) ==
    IF i > Len(resources) THEN "none"
    ELSE LET step == ResourceStep(resources[i], manifest, content_type)
         IN  IF step = "skip"
             THEN ScanResources(resources, i + 1, manifest, content_type)
             ELSE step

\* has_catalog after the loop: "match", "none", or "raise" when the loop or its
\* iterable raised
HasCatalog(manifest, content_type) ==
    LET resources == DictGet(manifest, "resources", List(<<>>))
    IN  IF resources.t # "list" THEN "raise"
        ELSE ScanResources(resources.v, 1, manifest, content_type)

\* the catalog descriptor built from one manifest catalog entry (lines 89-97)
CatalogDescriptor(manifest, catalog, transport_url) ==
    [addon_name |-> DictGet(manifest, "name", "Unknown Addon"),
     addon_id |-> DictGet(manifest, "id", ""),
     catalog_id |-> DictGet(catalog, "id", NoneKey),
     catalog_name |-> DictGet(catalog, "name", "Unknown Catalog"),
     catalog_type |-> DictGet(catalog, "type", NoneKey),
     transport_url |-> transport_url,
     extra |-> DictGet(catalog, "extra", <<>>)]

\* the loop over manifest['catalogs'] without its test of the catalog type
AddonCatalogsAllTypes(manifest, transport_url, content_type) ==
    LET addon_catalogs == DictGet(manifest, "catalogs", List(<<>>))
    IN  IF addon_catalogs.t # "list" THEN [raised |-> TRUE, catalogs |-> <<>>]
        ELSE [raised |-> FALSE,
              catalogs |-> [j \in 1..Len(addon_catalogs.v) |->
                              CatalogDescriptor(manifest, addon_catalogs.v[j], transport_url)]]

\* the loop over manifest['catalogs'] (lines 78-99)
AddonCatalogs(manifest, transport_url, content_type) ==
    LET addon_catalogs == DictGet(manifest, "catalogs", List(<<>>))
    IN  IF addon_catalogs.t # "list" THEN [raised |-> TRUE, catalogs |-> <<>>]
        ELSE [raised |-> FALSE,
              catalogs |->
                 LET matching == SelectSeq(addon_catalogs.v,
                                   LAMBDA c : DictGet(c, "type", NoneKey) = content_type)
                 IN  [j \in 1..Len(matching) |->
                         CatalogDescriptor(manifest, matching[j], transport_url)]]

\* the body of the loop over the addons without its test of the enabled flag
AddonStepIgnoringEnabled(addon, content_type) ==
    LET manifest == DictGet(addon, "manifest", EmptyDict)
        transport_url == DictGet(addon, "transportUrl", "")
    IN  IF manifest = EmptyDict \/ transport_url = ""
        THEN [raised |-> FALSE, catalogs |-> <<>>]
        ELSE LET has_catalog == HasCatalog(manifest, content_type)
             IN  IF has_catalog = "raise" THEN [raised |-> TRUE, catalogs |-> <<>>]
                 ELSE IF has_catalog = "none" THEN [raised |-> FALSE, catalogs |-> <<>>]
                 ELSE AddonCatalogs(manifest, transport_url, content_type)

\* the body of the loop over the addons for one addon (lines 47-99): the
\* descriptors it appends, or the exception that leaves the loop
AddonStep(addon, content_type) ==
    IF ~DictGet(addon, "enabled", TRUE) THEN [raised |-> FALSE, catalogs |-> <<>>]
    ELSE LET manifest == DictGet(addon, "manifest", EmptyDict)
             transport_url == DictGet(addon, "transportUrl", "")
         IN  IF manifest = EmptyDict \/ transport_url = ""
             THEN [raised |-> FALSE, catalogs |-> <<>>]
             ELSE LET has_catalog == HasCatalog(manifest, content_type)
                  IN  IF has_catalog = "raise" THEN [raised |-> TRUE, catalogs |-> <<>>]
                      ELSE IF has_catalog = "none" THEN [raised |-> FALSE, catalogs |-> <<>>]
                      ELSE AddonCatalogs(manifest, transport_url, content_type)

RECURSIVE DiscoverFrom(_, _, _, _)
\* the loop over the addons from position i on, `catalogs` collected so far
DiscoverFrom(addons, i, content_type, catalogs) ==
    IF i > Len(addons) THEN [raised |-> FALSE, catalogs |-> catalogs]
    ELSE LET step == AddonStep(addons[i], content_type)
         IN  IF step.raised THEN [raised |-> TRUE, catalogs |-> <<>>]
             ELSE DiscoverFrom(addons, i + 1, content_type, catalogs \o step.catalogs)

\* the record of a call of the catalog service: `stored` the stored auth key
\* when it began, `posts` the API requests and `gets` the catalog requests it
\* sent, `answers` what the catalog requests were answered, `addons` the
\* collection it fetched, `catalogs` the descriptors it discovered
CatalogCalled(op, arg, stored, posts, addons, catalogs, gets, answers, raised, ret) ==
    [op |-> op, arg |-> arg, stored |-> stored, posts |-> posts, addons |-> addons,
     catalogs |-> catalogs, gets |-> gets, answers |-> answers, raised |-> raised,
     ret |-> ret]

\* StremioCatalogService.__init__ builds the addon service of its own; no
\* method of the new service has been called
CatalogNew ==
    /\ catalogInst' = CachedKey(store)
    /\ cat' = NoCatalogCall
    /\ last' = Called("new", <<>>, GetAuthKey(store), <<>>, FALSE, <<>>)
    /\ UNCHANGED <<server, store, authInst, addonInst, sessions, remote, written,
                   panelVars, pure, uiVars>>

\* get_catalogs_for_type with the except clause taken away: what the fetch or
\* the discovery raises reaches the caller
GetCatalogsOutcomeUncaught(content_type, logged_in, fetch) ==
    IF ~logged_in THEN [raised |-> FALSE, ret |-> <<>>]
    ELSE IF fetch.raised THEN [raised |-> TRUE, ret |-> <<>>]
    ELSE LET found == DiscoverFrom(fetch.ret[1], 1, content_type, <<>>)
         IN  [raised |-> found.raised, ret |-> found.catalogs]

\* get_catalogs_for_type once is_logged_in() answered `logged_in` and, if it
\* did, get_addon_collection came back as `fetch`
GetCatalogsOutcome(content_type, logged_in, fetch) ==
    IF ~logged_in THEN [raised |-> FALSE, ret |-> <<>>]
    ELSE IF fetch.raised THEN [raised |-> FALSE, ret |-> <<>>]
    ELSE LET found == DiscoverFrom(fetch.ret[1], 1, content_type, <<>>)
         IN  IF found.raised THEN [raised |-> FALSE, ret |-> <<>>]
             ELSE [raised |-> FALSE, ret |-> found.catalogs]

\* what the server may answer to the addonCollectionGet of the catalog service
\* (none when nothing is sent)
CollectionAnswers(auth_key) ==
    IF ~IsLoggedIn(store) \/ NotAuthenticated(auth_key) THEN {NoResponse}
    ELSE GetCollectionResponses(AddonBody(auth_key, "addonCollectionGet", GetCollectionParams),
                                sessions, remote)

GetCatalogsForType(content_type) ==
    /\ catalogInst # Unbuilt
    /\ \E resp \in CollectionAnswers(catalogInst) :
          LET logged_in == IsLoggedIn(store)
              fetch == IF logged_in THEN FetchCollection(catalogInst, resp)
                       ELSE [sent |-> <<>>, raised |-> FALSE, ret |-> <<>>]
              out == GetCatalogsOutcome(content_type, logged_in, fetch)
          IN  /\ cat' = CatalogCalled("get_catalogs_for_type", <<content_type>>,
                                      GetAuthKey(store), fetch.sent, fetch.ret, out.ret,
                                      <<>>, <<>>, out.raised, <<out.ret>>)
              /\ last' = IF logged_in
                         THEN Called("get_addon_collection", <<>>, GetAuthKey(store),
                                     fetch.sent, fetch.raised, fetch.ret)
                         ELSE last
    /\ UNCHANGED <<server, store, authInst, addonInst, sessions, remote, written,
                   catalogInst, panelVars, pure, uiVars>>

(***************************************************************************)
(* The collections the catalog service meets                               *)
(***************************************************************************)
CatalogEntry(type, id) == [type |-> type, id |-> id, name |-> id]

CatalogResource(types) == Obj([name |-> "catalog", types |-> List(types)])

\* manifest bodies: what an addon declares besides its id
ManifestShapes ==
    LET movies == List(<<CatalogEntry("movie", "top"), CatalogEntry("series", "new"),
                         CatalogEntry("movie", "pop")>>)
        series == List(<<CatalogEntry("series", "new"), [id |-> "untyped"]>>)
    IN  { \* the string "catalog"
          [resources |-> List(<<Str("meta"), Str("catalog")>>), types |-> List(<<"series">>),
           catalogs |-> movies],
          \* a catalog object for another type before the one for movies
          [resources |-> List(<<CatalogResource(<<"series">>), CatalogResource(<<"movie">>)>>),
           catalogs |-> movies],
          \* a catalog object without types of its own
          [resources |-> List(<<Obj([name |-> "catalog"])>>), types |-> List(<<"movie">>),
           catalogs |-> movies],
          [resources |-> List(<<Obj([name |-> "catalog"])>>), catalogs |-> movies],
          \* a catalog object that declares an empty list of types
          [resources |-> List(<<CatalogResource(<<>>)>>), types |-> List(<<"movie">>),
           catalogs |-> movies],
          \* no catalog resource
          [resources |-> List(<<Obj([name |-> "meta", types |-> List(<<"movie">>)])>>),
           types |-> List(<<"movie">>), catalogs |-> movies],
          [catalogs |-> movies],
          \* catalogs of one type only, and none
          [resources |-> List(<<Str("catalog")>>), catalogs |-> series],
          [resources |-> List(<<Str("catalog")>>)],
          \* malformed: resources, types or catalogs null
          [resources |-> Null, catalogs |-> movies],
          [resources |-> List(<<Obj([name |-> "catalog", types |-> Null])>>),
           catalogs |-> movies],
          [resources |-> List(<<Str("catalog")>>), catalogs |-> Null] }

Manifest(id, shape) == [id |-> id, name |-> id] @@ shape

\* the descriptors the server may hold at transportUrl u: installed from a
\* manifest, with the enabled flag true, false or absent; two addons of a
\* collection may carry the same manifest id
AddonsAt(u, ids, flags) ==
    LET plain == { [transportUrl |-> u, manifest |-> Manifest(id, shape)] :
                      id \in ids, shape \in ManifestShapes }
    IN  (IF "absent" \in flags THEN plain ELSE {})
           \cup { DictSet(a, "enabled", e = "true") : a \in plain, e \in flags \ {"absent"} }

\* descriptors that lack a manifest or a transportUrl
BareAddons ==
    { [transportUrl |-> "https://a"],
      [transportUrl |-> "https://a", manifest |-> EmptyDict],
      [manifest |-> Manifest("x", [resources |-> List(<<Str("catalog")>>),
                                   catalogs |-> List(<<CatalogEntry("movie", "top")>>)])] }

CatalogCollections ==
    LET first == AddonsAt("https://a", {"x"}, {"absent", "true", "false"}) \cup BareAddons
        second == AddonsAt("https://b", {"x", "y"}, {"absent", "false"})
    IN  {<<>>} \cup { <<a>> : a \in first } \cup { <<a, b>> : a \in first, b \in second }

\* where the account stands when the content view asks for catalogs: the
\* stored key, the key the catalog service cached when it was built, and the
\* sessions the server accepts.  The service may have been built before a
\* login or before a logout, and a logout may have failed on the server.
CatalogSituations ==
    { [stored |-> "", cached |-> "", sessions |-> {}],
      [stored |-> "", cached |-> "k1", sessions |-> {}],
      [stored |-> "", cached |-> "k1", sessions |-> {"k1"}],
      [stored |-> "k1", cached |-> "k1", sessions |-> {"k1"}],
      [stored |-> "k1", cached |-> "", sessions |-> {"k1"}] }

InitCatalogOn(collections) ==
    /\ server = "protocol"
    /\ \E sit \in CatalogSituations :
          /\ store = IF sit.stored = "" THEN EmptyStore
                     ELSE [auth_key |-> sit.stored, user_email |-> "a@x", user_id |-> "ida"]
          /\ catalogInst = sit.cached
          /\ sessions = sit.sessions
    /\ authInst = [a \in AuthIds |-> Unbuilt]
    /\ addonInst = [d \in AddonIds |-> Unbuilt]
    /\ remote \in collections
    /\ written = <<>>
    /\ last = Called("new", <<>>, GetAuthKey(store), <<>>, FALSE, <<>>)
    /\ cat = NoCatalogCall
    /\ PanelIdle
    /\ UiIdle
    /\ pure = NoCall

InitCatalog == InitCatalogOn(CatalogCollections)

NextCatalog ==
    \/ CatalogNew
    \/ \E t \in ContentTypes : GetCatalogsForType(t)

\* discovery: get_catalogs_for_type on every collection
SpecCatalog == InitCatalog /\ [][NextCatalog]_vars

(***************************************************************************)
(* StremioCatalogService: the content of the catalogs                      *)
(***************************************************************************)
MaxItems == 2

MetaPreview(id) == [id |-> id, type |-> "movie"]

\* the metas a catalog page may hold
MetaLists ==
    { <<>>, <<MetaPreview("tt1")>>, <<MetaPreview("tt2"), MetaPreview("tt1")>>,
      <<MetaPreview("tt1"), MetaPreview("tt2"), MetaPreview("tt3")>> }

\* what an addon may answer to GET .../catalog/{type}/{id}.json: no answer in
\* time, no connection, an error status, a body that is not JSON, a JSON body
\* that is not an object, and an object whose metas field is a list, absent,
\* null or an object
ContentResponses ==
    { NetFail("timeout"), NetFail("connection"),
      Http(404, Obj([metas |-> List(<<MetaPreview("tt1")>>)])),
      HttpNoJson,
      Http(200, List(<<>>)),
      Http(200, Obj(EmptyDict)),
      Http(200, Obj([metas |-> Null])),
      Http(200, Obj([metas |-> Obj(EmptyDict)])) }
    \cup { Http(200, Obj([metas |-> List(ms)])) : ms \in MetaLists }

\* the URL fetch_catalog_content asks (lines 125-137); the transport URLs of
\* the model end neither in '/' nor in '/manifest.json'
CatalogUrl(catalog_descriptor, skip) ==
    [base |-> catalog_descriptor.transport_url,
     type |-> catalog_descriptor.catalog_type,
     id |-> catalog_descriptor.catalog_id]
       @@ (IF skip > 0 THEN [skip |-> skip] ELSE EmptyDict)

\* len(metas) is defined
Sized(v) == v.t \in {"list", "object", "string"}

\* fetch_catalog_content with the except clause taken away
FetchContentOutcomeUncaught(catalog_descriptor, resp) ==
    IF resp.net # "ok" THEN [raised |-> TRUE, ret |-> <<List(<<>>)>>]
    ELSE IF resp.status # 200 THEN [raised |-> FALSE, ret |-> <<List(<<>>)>>]
    ELSE IF "data" \notin DOMAIN resp THEN [raised |-> TRUE, ret |-> <<List(<<>>)>>]
    ELSE IF resp.data.t # "object" THEN [raised |-> TRUE, ret |-> <<List(<<>>)>>]
    ELSE LET metas == DictGet(resp.data.v, "metas", List(<<>>))
         IN  IF ~Sized(metas) \/ "catalog_name" \notin DOMAIN catalog_descriptor
             THEN [raised |-> TRUE, ret |-> <<List(<<>>)>>]
             ELSE [raised |-> FALSE, ret |-> <<metas>>]

\* fetch_catalog_content once its request was answered `resp` (lines 141-156)
FetchContentOutcome(catalog_descriptor, resp) ==
    IF resp.net # "ok" THEN [raised |-> FALSE, ret |-> <<List(<<>>)>>]
    ELSE IF resp.status # 200 THEN [raised |-> FALSE, ret |-> <<List(<<>>)>>]
    ELSE IF "data" \notin DOMAIN resp THEN [raised |-> FALSE, ret |-> <<List(<<>>)>>]
    ELSE IF resp.data.t # "object" THEN [raised |-> FALSE, ret |-> <<List(<<>>)>>]
    ELSE LET metas == DictGet(resp.data.v, "metas", List(<<>>))
         IN  IF ~Sized(metas) \/ "catalog_name" \notin DOMAIN catalog_descriptor
             THEN [raised |-> FALSE, ret |-> <<List(<<>>)>>]
             ELSE [raised |-> FALSE, ret |-> <<metas>>]

\* fetch_catalog_content on a descriptor the caller got from discovery
FetchCatalogContent(i, skip) ==
    /\ cat.op # "none"
    /\ i \in 1..Len(cat.catalogs)
    /\ \E resp \in ContentResponses :
          LET out == FetchContentOutcome(cat.catalogs[i], resp)
          IN  cat' = CatalogCalled("fetch_catalog_content", <<cat.catalogs[i], skip>>,
                                   GetAuthKey(store), <<>>, cat.addons, cat.catalogs,
                                   <<CatalogUrl(cat.catalogs[i], skip)>>, <<resp>>,
                                   out.raised, out.ret)
    /\ UNCHANGED <<svcVars, catalogInst, panelVars, pure, uiVars>>

\* the answers the requests of one pass over the catalogs are drawn from: one
\* of each outcome of fetch_catalog_content
PassResponses ==
    { NetFail("timeout"), NetFail("connection"),
      Http(404, Obj([metas |-> List(<<MetaPreview("tt1")>>)])),
      Http(200, Obj(EmptyDict)),
      Http(200, Obj([metas |-> Obj(EmptyDict)])),
      Http(200, Obj([metas |-> List(<<MetaPreview("tt1")>>)])),
      Http(200, Obj([metas |-> List(<<MetaPreview("tt1"), MetaPreview("tt2"),
                                      MetaPreview("tt3")>>)])) }

Min(a, b) == IF a <= b THEN a ELSE b

\* items[:max_items_per_catalog] without the limit
SliceAll(items, n) == items

\* items[:n] of a list
Slice(items, n) ==
    IF n >= 0 THEN SubSeq(items, 1, Min(n, Len(items)))
    ELSE SubSeq(items, 1, Len(items) + n)

Section(catalog, items) ==
    [catalog_name |-> catalog.catalog_name, addon_name |-> catalog.addon_name,
     catalog_id |-> catalog.catalog_id, items |-> items]

RECURSIVE SectionsFromStopAtFailure(_, _, _, _, _)
\* the loop of fetch_all_catalogs_for_type giving up, with no section at all,
\* at the first catalog whose fetch gave nothing
SectionsFromStopAtFailure(catalogs, answers, i, max_items_per_catalog, catalog_sections) ==
    IF i > Len(catalogs)
    THEN [raised |-> FALSE, ret |-> <<catalog_sections>>, asked |-> Len(catalogs)]
    ELSE LET fetched_items == FetchContentOutcome(catalogs[i], answers[i]).ret[1]
         IN  IF fetched_items.t # "list"
             THEN [raised |-> TRUE, ret |-> <<>>, asked |-> i]
             ELSE LET items == Slice(fetched_items.v, max_items_per_catalog)
                  IN  IF items = <<>>
                      THEN [raised |-> FALSE, ret |-> << <<>> >>, asked |-> i]
                      ELSE SectionsFromStopAtFailure(catalogs, answers, i + 1,
                               max_items_per_catalog,
                               Append(catalog_sections, Section(catalogs[i], items)))

RECURSIVE SectionsFromPrepending(_, _, _, _, _)
\* the loop of fetch_all_catalogs_for_type putting each new section first
SectionsFromPrepending(catalogs, answers, i, max_items_per_catalog, catalog_sections) ==
    IF i > Len(catalogs)
    THEN [raised |-> FALSE, ret |-> <<catalog_sections>>, asked |-> Len(catalogs)]
    ELSE LET fetched_items == FetchContentOutcome(catalogs[i], answers[i]).ret[1]
         IN  IF fetched_items.t # "list"
             THEN [raised |-> TRUE, ret |-> <<>>, asked |-> i]
             ELSE LET items == Slice(fetched_items.v, max_items_per_catalog)
                  IN  SectionsFromPrepending(catalogs, answers, i + 1,
                          max_items_per_catalog,
                          IF items # <<>>
                          THEN <<Section(catalogs[i], items)>> \o catalog_sections
                          ELSE catalog_sections)

RECURSIVE SectionsFrom(_, _, _, _, _)
\* the loop of fetch_all_catalogs_for_type over the catalogs from position i
\* on (lines 173-186), answers[j] being the answer to the request for catalog
\* j: the sections, or the exception of the slice of a value that is no
\* list, and the number of requests made
SectionsFrom(catalogs, answers, i, max_items_per_catalog, catalog_sections) ==
    IF i > Len(catalogs)
    THEN [raised |-> FALSE, ret |-> <<catalog_sections>>, asked |-> Len(catalogs)]
    ELSE LET fetched_items == FetchContentOutcome(catalogs[i], answers[i]).ret[1]
         IN  IF fetched_items.t # "list"
             THEN [raised |-> TRUE, ret |-> <<>>, asked |-> i]
             ELSE LET items == Slice(fetched_items.v, max_items_per_catalog)
                  IN  SectionsFrom(catalogs, answers, i + 1, max_items_per_catalog,
                                   IF items # <<>>
                                   THEN Append(catalog_sections, Section(catalogs[i], items))
                                   ELSE catalog_sections)

FetchAllCatalogsForType(content_type, max_items_per_catalog) ==
    /\ catalogInst # Unbuilt
    /\ \E resp \in CollectionAnswers(catalogInst) :
          LET logged_in == IsLoggedIn(store)
              fetch == IF logged_in THEN FetchCollection(catalogInst, resp)
                       ELSE [sent |-> <<>>, raised |-> FALSE, ret |-> <<>>]
              catalogs == GetCatalogsOutcome(content_type, logged_in, fetch).ret
          IN  /\ \E answers \in [1..Len(catalogs) -> PassResponses] :
                    LET out == SectionsFrom(catalogs, answers, 1, max_items_per_catalog, <<>>)
                    IN  /\ \A j \in (out.asked + 1)..Len(catalogs) :
                              answers[j] = NetFail("timeout")
                        /\ cat' = CatalogCalled("fetch_all_catalogs_for_type",
                                     <<content_type, max_items_per_catalog>>,
                                     GetAuthKey(store), fetch.sent, fetch.ret, catalogs,
                                     [j \in 1..out.asked |-> CatalogUrl(catalogs[j], 0)],
                                     SubSeq(answers, 1, out.asked), out.raised, out.ret)
              /\ last' = IF logged_in
                         THEN Called("get_addon_collection", <<>>, GetAuthKey(store),
                                     fetch.sent, fetch.raised, fetch.ret)
                         ELSE last
    /\ UNCHANGED <<server, store, authInst, addonInst, sessions, remote, written,
                   catalogInst, panelVars, pure, dialog, panel>>

\* the collections whose catalogs are fetched
FetchCollections ==
    LET movies == [resources |-> List(<<Str("catalog")>>),
                   catalogs |-> List(<<CatalogEntry("movie", "top"),
                                       CatalogEntry("series", "new"),
                                       CatalogEntry("movie", "pop")>>)]
        series == [resources |-> List(<<Str("catalog")>>),
                   catalogs |-> List(<<CatalogEntry("series", "new")>>)]
        A == [transportUrl |-> "https://a", manifest |-> Manifest("x", series)]
        B == [transportUrl |-> "https://b", manifest |-> Manifest("y", movies)]
    IN  { <<>>, <<B>>, <<A, B>>, <<DictSet(B, "enabled", FALSE), A>> }

InitFetch == InitCatalogOn(FetchCollections)

NextFetch ==
    \/ CatalogNew
    \/ \E t \in ContentTypes : GetCatalogsForType(t)
    \/ \E i \in 1..3, skip \in 0..1 : FetchCatalogContent(i, skip)
    \/ \E t \in ContentTypes, m \in 1..MaxItems :
          FetchAllCatalogsForType(t, m) /\ UNCHANGED view

\* the content of the catalogs: fetch_catalog_content and
\* fetch_all_catalogs_for_type
SpecFetch == InitFetch /\ [][NextFetch]_vars

(***************************************************************************)
(* ContentView: the catalog sections it loads and displays                 *)
(***************************************************************************)
MaxRefreshes == 2

\* what the sections box holds
Shown(kind, sections) == [kind |-> kind, sections |-> sections]

\* _load_catalog_sections (lines 57-181) up to thread.start(): nothing when
\* the sections were loaded and the cache is not empty, else the loading
\* indicator and a thread; `passes` counts the threads started
LoadCatalogSections(v) ==
    IF v.loaded /\ v.cache # <<>> /\ v.cache[1] # <<>>
    THEN v
    ELSE [v EXCEPT !.shown = Shown("loading", <<>>),
                   !.threads = @ + 1,
                   !.passes = @ + 1]

\* ContentView.__init__ (lines 42-55): the catalog service of its own, not
\* loaded, no cache, and the first load
ViewNew(content_type) ==
    /\ ~view.built
    /\ catalogInst' = CachedKey(store)
    /\ cat' = NoCatalogCall
    /\ last' = Called("new", <<>>, GetAuthKey(store), <<>>, FALSE, <<>>)
    /\ view' = LoadCatalogSections(
                   [built |-> TRUE, content_type |-> content_type, loaded |-> FALSE,
                    cache |-> <<>>, shown |-> Shown("filled", <<>>), threads |-> 0,
                    idle |-> <<>>, passes |-> 0, refreshes |-> 0])
    /\ UNCHANGED <<server, store, authInst, addonInst, sessions, remote, written,
                   panelVars, pure, dialog, panel>>

\* refresh_view (lines 203-213)
RefreshView ==
    /\ view.built
    /\ view.refreshes < MaxRefreshes
    /\ view' = [LoadCatalogSections(view) EXCEPT !.refreshes = @ + 1]
    /\ UNCHANGED <<svcVars, panelVars, catVars, pure, dialog, panel>>

\* fetch_catalogs_threaded (lines 101-175): the pass of the catalog service,
\* and update_ui or show_error handed to the main loop
FetchCatalogsThreaded ==
    /\ view.built
    /\ view.threads > 0
    /\ FetchAllCatalogsForType(view.content_type, 20)
    /\ view' = [view EXCEPT
                   !.threads = @ - 1,
                   !.idle = Append(@, IF cat'.raised THEN Shown("error", <<>>)
                                      ELSE Shown("sections", cat'.ret[1]))]

\* update_ui (lines 105-153) and show_error (163-173) on the main loop
UpdateUi ==
    /\ view.built
    /\ view.idle # <<>>
    /\ LET task == Head(view.idle)
       IN  view' =
              IF task.kind = "error"
              THEN [view EXCEPT !.idle = Tail(@), !.shown = task]
              ELSE IF task.sections = <<>>
              THEN [view EXCEPT !.idle = Tail(@), !.shown = Shown("empty", <<>>)]
              ELSE [view EXCEPT !.idle = Tail(@), !.shown = task,
                                !.cache = <<task.sections>>, !.loaded = TRUE]
    /\ UNCHANGED <<svcVars, panelVars, catVars, pure, dialog, panel>>

NextView ==
    \/ \E t \in ContentTypes : ViewNew(t)
    \/ RefreshView
    \/ FetchCatalogsThreaded
    \/ UpdateUi

\* the content view: built, refreshed at any time, its threads and its updates
SpecView == InitFetch /\ [][NextView]_vars

(***************************************************************************)
(* Claims about the authentication service (specification Spec)           *)
(***************************************************************************)

\* the user object of a login result, when the result carries one
HasUserObject(result) == "user" \in DOMAIN result /\ result.user.t = "object"

\* C1: after every login that the server answered with a success result and
\* that returned without error, is_logged_in() is true and the stored email is
\* the email of the user object of the response.
C1_LoginSuccessStoresSession ==
    (last.op = "login" /\ ~last.raised) =>
        /\ IsLoggedIn(store)
        /\ HasUserObject(last.ret[1]) =>
               GetUserEmail(store) = DictGet(last.ret[1].user.v, "email", "")

\* C2: a login that raises leaves the stored auth key, email and id as they
\* were before the call.
C2_FailedLoginKeepsStore ==
    [][(last'.op = "login" /\ last'.raised) => store' = store]_vars

C4_LogoutSendsStoredKey ==
    (last.op = "logout" /\ last.stored # "") =>
        /\ Len(last.sent) = 1
        /\ last.sent[1].method = "logout"
        /\ "authKey" \in DOMAIN last.sent[1]
        /\ last.sent[1].authKey = last.stored

\* C5: get_addon_collection called while the store holds no session key fails
\* with NotAuthenticated and sends no request.
C5_NoKeyNoFetch ==
    (last.op = "get_addon_collection" /\ last.stored = "") =>
        /\ last.raised
        /\ last.sent = <<>>

\* C6: every request sent while the store holds a session key carries that
\* key as authKey, and get_addon_collection / set_addon_collection do send
\* their request then.
C6_RequestsCarryStoredKey ==
    (last.stored # "" /\ last.op \notin {"init", "new", "other_client"}) =>
        /\ \A i \in 1..Len(last.sent) :
              "authKey" \in DOMAIN last.sent[i] /\ last.sent[i].authKey = last.stored
        /\ last.op \in {"get_addon_collection", "set_addon_collection"} => last.sent # <<>>

(***************************************************************************)
(* Claims about the addon service (specification Spec)                     *)
(***************************************************************************)

\* C7: set_addon_collection(C) by a logged-in caller sends one
\* addonCollectionSet request whose addons field is C, and when it succeeds the
\* remote collection is C; by a caller that is not logged in it fails without
\* a request and leaves the remote collection as it was.
C7_SetReplacesCollection ==
    [][last'.op = "set_addon_collection" =>
          IF last'.stored # ""
          THEN /\ Len(last'.sent) = 1
               /\ last'.sent[1].method = "addonCollectionSet"
               /\ last'.sent[1].addons = last'.arg[1]
               /\ ~last'.raised => remote' = last'.arg[1]
          ELSE /\ last'.raised
               /\ last'.sent = <<>>
               /\ remote' = remote]_vars

\* C8: a get_addon_collection that returns after a successful
\* set_addon_collection(C), no other client having written in between, returns
\* the addons of C (by transportUrl) in the order of C.
C8_RoundTrip ==
    (last.op = "get_addon_collection" /\ ~last.raised /\ written # <<>>) =>
        Urls(last.ret[1]) = Urls(written[1])

\* C8 witness: the round trip of a two-element collection whose manifests the
\* server refreshed, so that what came back is not what was sent.
C8_Witness ==
    /\ last.op = "get_addon_collection"
    /\ ~last.raised
    /\ written # <<>>
    /\ Len(written[1]) = 2
    /\ last.ret[1] # written[1]

(***************************************************************************)
(* Claims about enable_addon / disable_addon (specification SpecPure)      *)
(***************************************************************************)

C11_OutOfRangeNoOp ==
    (pure.op \in {"enable_addon", "disable_addon", "remove_addon"}
        /\ (pure.index < 0 \/ pure.index >= Len(pure.addons))) =>
        pure.out = <<pure.addons>>

\* C11 witness: remove_addon with index -1 on a two-element collection, where
\* an unguarded pop would drop the last element.
C11_Witness ==
    /\ pure.op = "remove_addon"
    /\ pure.index = -1
    /\ Len(pure.addons) = 2
    /\ pure.out # <<>>

Completed == { i \in 1..Len(order) : saves[order[i]].state = "done" }

LastCompleted == order[CHOOSE i \in Completed : \A j \in Completed : j <= i]

\* C9: concurrent saves are neither rejected nor merged: once saves have
\* completed, the remote collection is, in full, the collection carried by the
\* save that completed last.
C9_LastSaveWins ==
    Completed # {} => remote = saves[LastCompleted].arg[1]

\* C9 witness: two saves carrying different collections were with the server
\* at the same time, and the one dispatched first completed last.
C9_Witness ==
    /\ Len(saves) = 2
    /\ saves[1].state = "done"
    /\ saves[2].state = "done"
    /\ saves[2].raced
    /\ saves[1].arg # saves[2].arg
    /\ order = <<2, 1>>

(***************************************************************************)
(* Claims about the fetch, mutate, save round trip (specification          *)
(* SpecPanel)                                                              *)
(***************************************************************************)

\* the transportUrls of collection c without those in `gone`, in the order of c
Kept(c, gone) == SelectSeq(Urls(c), LAMBDA u : u \notin gone)

\* save task t calls set_addon_collection in this step
Dispatched(t) == saves[t].state = "queued" /\ saves'[t].state # "queued"

\* C13: whatever enable_addon / disable_addon / remove_addon calls, with valid
\* or invalid indices, were applied to the fetched collection, the collection
\* passed to set_addon_collection is the fetched sequence without the
\* descriptors remove_addon deleted, the others in their original order.
C13_EditsKeepOrder ==
    [][\A t \in DOMAIN saves :
          Dispatched(t) => Urls(saves'[t].arg[1]) = Kept(fetched, removed)]_vars

\* C13 witness: of two fetched descriptors the first was removed and the other
\* one toggled, and the save carrying the result was dispatched.
C13_Witness ==
    /\ Len(fetched) = 2
    /\ removed = {fetched[1].transportUrl}
    /\ Len(saves) = 2
    /\ saves[2].arg # <<>>
    /\ Len(saves[2].arg[1]) = 1
    /\ saves[2].arg[1][1] # fetched[2]

(***************************************************************************)
(* Claims about catalog discovery (specification SpecCatalog)              *)
(***************************************************************************)

\* C14: get_catalogs_for_type called while no session key is stored returns
\* the empty sequence, raises nothing and sends no request.
C14_LoggedOutNoCatalogs ==
    (cat.op = "get_catalogs_for_type" /\ cat.stored = "") =>
        /\ ~cat.raised
        /\ cat.ret = << <<>> >>
        /\ cat.posts = <<>>

\* C14 witness: the call was made with no key stored by a service that still
\* holds the key of a session the server accepts, the account having addons
\* with movie catalogs.
C14_Witness ==
    /\ cat.op = "get_catalogs_for_type"
    /\ cat.stored = ""
    /\ catalogInst \in sessions
    /\ DiscoverFrom(remote, 1, cat.arg[1], <<>>).catalogs # <<>>

\* the addon collection a get_catalogs_for_type call went over, if it got one
Went == cat.op = "get_catalogs_for_type" /\ cat.addons # <<>>

\* the discovery over that collection
Discovery == DiscoverFrom(cat.addons[1], 1, cat.arg[1], <<>>)

\* C15: get_catalogs_for_type never raises; when fetching the collection
\* failed (NotAuthenticated, timeout, connection, server or protocol error) or
\* the pass tripped over a malformed manifest, it returns the empty sequence.
C15_DiscoveryNeverRaises ==
    cat.op = "get_catalogs_for_type" =>
        /\ ~cat.raised
        /\ (cat.stored # "" /\ cat.addons = <<>>) => cat.ret = << <<>> >>
        /\ (Went /\ Discovery.raised) => cat.ret = << <<>> >>

\* C15 witness: the first addon has catalogs of the type asked for and the
\* pass raised on the manifest of the second.
C15_Witness ==
    /\ Went
    /\ Len(cat.addons[1]) = 2
    /\ AddonStep(cat.addons[1][1], cat.arg[1]).catalogs # <<>>
    /\ AddonStep(cat.addons[1][2], cat.arg[1]).raised

\* the returned descriptors
Returned == Range(cat.ret[1])

\* the addons of the collection whose enabled flag is false
Disabled == { a \in Range(cat.addons[1]) : "enabled" \in DOMAIN a /\ ~a.enabled }

\* an absent enabled flag written out as true
EnabledByDefault(addons) ==
    [i \in 1..Len(addons) |->
        IF "enabled" \in DOMAIN addons[i] THEN addons[i]
        ELSE DictSet(addons[i], "enabled", TRUE)]

\* C16 as stated: no returned descriptor has the id or the transport URL of an
\* addon whose enabled flag is false, and an addon with no enabled field is
\* treated as enabled.  Violated when an enabled addon of the collection
\* carries the same manifest id as a disabled one.
C16_NoIdOfDisabled ==
    Went =>
        /\ \A a \in Disabled, d \in Returned :
              /\ d.transport_url # DictGet(a, "transportUrl", "")
              /\ "manifest" \in DOMAIN a => d.addon_id # DictGet(a.manifest, "id", "")
        /\ Discovery = DiscoverFrom(EnabledByDefault(cat.addons[1]), 1, cat.arg[1], <<>>)

\* C16 amended: every returned descriptor carries the transport URL and the
\* id of an addon of the collection whose enabled flag is not false, none
\* carries the transport URL of a disabled addon, and an addon with no enabled
\* field is treated as enabled.
C16_NoneFromDisabled ==
    Went =>
        /\ \A d \in Returned :
              /\ \E a \in Range(cat.addons[1]) \ Disabled :
                    /\ "manifest" \in DOMAIN a /\ "transportUrl" \in DOMAIN a
                    /\ d.transport_url = a.transportUrl
                    /\ d.addon_id = DictGet(a.manifest, "id", "")
              /\ \A a \in Disabled : d.transport_url # DictGet(a, "transportUrl", "")
        /\ Discovery = DiscoverFrom(EnabledByDefault(cat.addons[1]), 1, cat.arg[1], <<>>)

\* C16 witness: of two addons with catalogs of the type asked for, the
\* disabled one contributed nothing and the one without an enabled field did.
C16_Witness ==
    /\ Went
    /\ Len(cat.addons[1]) = 2
    /\ cat.addons[1][1] \in Disabled
    /\ "enabled" \notin DOMAIN cat.addons[1][2]
    /\ AddonCatalogs(cat.addons[1][1].manifest, "https://a", cat.arg[1]).catalogs # <<>>
    /\ Returned # {}

\* an enabled addon with a manifest and a transport URL
Eligible(a) ==
    /\ DictGet(a, "enabled", TRUE)
    /\ DictGet(a, "manifest", EmptyDict) # EmptyDict
    /\ DictGet(a, "transportUrl", "") # ""

\* the types a resource object supports: its own, or the manifest's top-level
\* types when it has no types field
SupportedTypes(resource, manifest) ==
    LET types == IF "types" \in DOMAIN resource THEN resource.types
                 ELSE DictGet(manifest, "types", List(<<>>))
    IN  IF types.t = "list" THEN Range(types.v) ELSE {}

\* the manifest offers catalogs of type t: some resource is the string
\* "catalog", or an object named "catalog" that supports t
Qualifies(manifest, t) ==
    LET resources == DictGet(manifest, "resources", List(<<>>))
    IN  /\ resources.t = "list"
        /\ \E r \in Range(resources.v) :
              \/ r = Str("catalog")
              \/ /\ r.t = "object"
                 /\ DictGet(r.v, "name", NoneKey) = "catalog"
                 /\ t \in SupportedTypes(r.v, manifest)

\* the manifest catalog entries of type t, in manifest order
EntriesOfType(manifest, t) ==
    LET catalogs == DictGet(manifest, "catalogs", List(<<>>))
    IN  IF catalogs.t # "list" THEN <<>>
        ELSE SelectSeq(catalogs.v, LAMBDA c : DictGet(c, "type", NoneKey) = t)

\* C17: when the pass completes, an enabled addon with a manifest and a
\* transport URL contributes descriptors (those of its catalog entries of type
\* t) if and only if its resources contain the string "catalog", or an object
\* named "catalog" whose own types, or the manifest's types when it has none,
\* include t; wherever in the resources list that resource stands.
C17_QualifyingResource ==
    (Went /\ ~Discovery.raised) =>
        \A a \in Range(cat.addons[1]) :
            Eligible(a) =>
                ((\E d \in Returned : d.transport_url = a.transportUrl)
                    <=> (Qualifies(a.manifest, cat.arg[1])
                            /\ EntriesOfType(a.manifest, cat.arg[1]) # <<>>))

\* C17 witness: an addon whose first catalog object does not support the type
\* asked for and whose second one does has contributed.
C17_Witness ==
    /\ Went
    /\ cat.addons[1] # <<>>
    /\ Eligible(cat.addons[1][1])
    /\ DictGet(cat.addons[1][1].manifest, "resources", Null) =
           List(<<CatalogResource(<<"series">>), CatalogResource(<<"movie">>)>>)
    /\ \E d \in Returned : d.transport_url = cat.addons[1][1].transportUrl

RECURSIVE Concat(_)
Concat(qs) == IF qs = <<>> THEN <<>> ELSE Head(qs) \o Concat(Tail(qs))

\* transport URL and catalog id of the entries of type t of a contributing
\* addon, in manifest order
Contribution(a, t) ==
    IF Eligible(a) /\ Qualifies(a.manifest, t)
    THEN LET entries == EntriesOfType(a.manifest, t)
         IN  [j \in 1..Len(entries) |-> <<a.transportUrl, DictGet(entries[j], "id", NoneKey)>>]
    ELSE <<>>

\* C18: when the pass completes, the result holds exactly one descriptor per
\* catalog entry of type t of each qualifying addon and none for entries of
\* other types, every descriptor has catalog_type = t, and the descriptors
\* stand in collection order of the addons and, within an addon, in manifest
\* order of the catalogs.
C18_OnePerEntryInOrder ==
    (Went /\ ~Discovery.raised) =>
        LET ret == cat.ret[1]
            addons == cat.addons[1]
        IN  /\ \A d \in Returned : d.catalog_type = cat.arg[1]
            /\ [i \in 1..Len(ret) |-> <<ret[i].transport_url, ret[i].catalog_id>>]
                  = Concat([i \in 1..Len(addons) |-> Contribution(addons[i], cat.arg[1])])

\* C18 witness: two addons, each with two movie catalogs around a series
\* catalog, gave four descriptors.
C18_Witness ==
    /\ Went
    /\ cat.arg = <<"movie">>
    /\ Len(cat.addons[1]) = 2
    /\ Len(cat.ret[1]) = 4
    /\ cat.ret[1][1].transport_url # cat.ret[1][3].transport_url

(***************************************************************************)
(* Claims about the content of the catalogs (specification SpecFetch)      *)
(***************************************************************************)

\* the answer is a 200 response with a readable body
Readable(resp) == resp.net = "ok" /\ resp.status = 200 /\ "data" \in DOMAIN resp

\* the answer is a 200 response whose body is an object with a metas field
HasMetas(resp) ==
    Readable(resp) /\ resp.data.t = "object" /\ "metas" \in DOMAIN resp.data.v

\* C19 as stated: fetch_catalog_content never raises; on a non-200 response,
\* a timeout or transport error, or an unreadable body it returns the empty
\* sequence; on a 200 response it returns the metas field of the body
\* unmodified, or the empty sequence when the field is absent.  Violated by a
\* body whose metas field is null: the empty sequence is returned.
C19_MetasAsReceived ==
    cat.op = "fetch_catalog_content" =>
        /\ ~cat.raised
        /\ cat.ret = <<IF HasMetas(cat.answers[1]) THEN cat.answers[1].data.v.metas
                       ELSE List(<<>>)>>

\* C19 amended: fetch_catalog_content never raises; on a non-200 response, a
\* timeout or transport error, or an unreadable body it returns the empty
\* sequence; on a 200 response it returns the metas field of the body
\* unmodified when that field is a sequence (or another value with a length),
\* and the empty sequence when the field is absent or null.
C19_MetasOrEmpty ==
    cat.op = "fetch_catalog_content" =>
        /\ ~cat.raised
        /\ cat.ret = <<IF HasMetas(cat.answers[1])
                             /\ cat.answers[1].data.v.metas.t \in {"list", "object"}
                       THEN cat.answers[1].data.v.metas
                       ELSE List(<<>>)>>

\* C19 witness: a page of three metas was asked with skip = 1 and returned.
C19_Witness ==
    /\ cat.op = "fetch_catalog_content"
    /\ cat.arg[2] = 1
    /\ "skip" \in DOMAIN cat.gets[1]
    /\ cat.ret[1].t = "list"
    /\ Len(cat.ret[1].v) = 3

\* the meta previews an answer carries: the metas of a 200 response whose
\* body has a list of them
Previews(resp) ==
    IF HasMetas(resp) /\ resp.data.v.metas.t = "list" THEN resp.data.v.metas.v ELSE <<>>

\* the positions of the catalogs whose fetch gave items, in order
WithItems ==
    SelectSeq([i \in 1..Len(cat.answers) |-> i], LAMBDA i : Previews(cat.answers[i]) # <<>>)

\* C20: for max_items_per_catalog m >= 1, every section returned by
\* fetch_all_catalogs_for_type(t, m) has between 1 and m items, which are the
\* first min(m, n) of the n meta previews the fetch of its catalog returned,
\* in the same order and unmodified; a catalog whose fetch gave no items has
\* no section.
C20_SectionsCapped ==
    (cat.op = "fetch_all_catalogs_for_type" /\ ~cat.raised /\ cat.arg[2] >= 1) =>
        LET sections == cat.ret[1]
            m == cat.arg[2]
        IN  /\ Len(sections) = Len(WithItems)
            /\ \A k \in 1..Len(sections) :
                  LET previews == Previews(cat.answers[WithItems[k]])
                      items == sections[k].items
                  IN  /\ 1 <= Len(items) /\ Len(items) <= m
                      /\ Len(items) = Min(m, Len(previews))
                      /\ \A j \in 1..Len(items) : items[j] = previews[j]
                      /\ sections[k].catalog_id = cat.catalogs[WithItems[k]].catalog_id

\* C20 witness: of two catalogs one gave three previews, cut to m = 2, and
\* the other gave none and has no section.
C20_Witness ==
    /\ cat.op = "fetch_all_catalogs_for_type"
    /\ ~cat.raised
    /\ cat.arg[2] = 2
    /\ Len(cat.catalogs) = 2
    /\ Len(cat.ret[1]) = 1
    /\ Len(cat.ret[1][1].items) = 2
    /\ \E i \in 1..2 : Len(Previews(cat.answers[i])) = 3

\* the request got no answer in time or no connection, or an error status
Failed(resp) == resp.net # "ok" \/ resp.status # 200

\* the sequence s without its i-th element
Without(s, i) == SubSeq(s, 1, i - 1) \o SubSeq(s, i + 1, Len(s))

\* the answers of the pass, one for each catalog: those received, and no
\* answer in time for a request that was not made
PassAnswers ==
    [j \in 1..Len(cat.catalogs) |->
        IF j <= Len(cat.answers) THEN cat.answers[j] ELSE NetFail("timeout")]

\* C21: in fetch_all_catalogs_for_type a failing fetch for one catalog
\* (timeout, transport error, error status) does not abort the pass: the
\* outcome is the one of the same pass with the failing catalog absent; with
\* two catalogs of two addons, one timing out and one returning items, the
\* result is exactly one section, that of the successful addon.
C21_FailedFetchIsolated ==
    cat.op = "fetch_all_catalogs_for_type" =>
        LET m == cat.arg[2]
        IN  /\ \A i \in 1..Len(cat.answers) :
                  Failed(cat.answers[i]) =>
                      LET rest == SectionsFrom(Without(cat.catalogs, i),
                                               Without(PassAnswers, i), 1, m, <<>>)
                      IN  rest.raised = cat.raised /\ rest.ret = cat.ret
            /\ \A i, j \in 1..Len(cat.answers) :
                  ( /\ Len(cat.catalogs) = 2
                    /\ cat.answers[i] = NetFail("timeout")
                    /\ Previews(cat.answers[j]) # <<>> )
                  => /\ ~cat.raised
                     /\ cat.ret[1] = <<Section(cat.catalogs[j],
                                               Slice(Previews(cat.answers[j]), m))>>

\* C21 witness: of the catalogs of two addons the first timed out and the
\* second returned three items: one section, of the second addon.
C21_Witness ==
    /\ cat.op = "fetch_all_catalogs_for_type"
    /\ Len(cat.catalogs) = 2
    /\ cat.catalogs[1].addon_id # cat.catalogs[2].addon_id
    /\ Len(cat.answers) = 2
    /\ cat.answers[1] = NetFail("timeout")
    /\ Len(Previews(cat.answers[2])) = 3
    /\ ~cat.raised
    /\ Len(cat.ret[1]) = 1
    /\ cat.ret[1][1].addon_name = cat.catalogs[2].addon_name

\* C22: fetch_all_catalogs_for_type never raises to its caller, whatever each
\* remote endpoint returns or however it fails.  Violated by a 200 response
\* whose metas field is an object: fetch_catalog_content returns it and the
\* slice items[:max_items_per_catalog] raises, outside any try.
C22_FetchAllNeverRaises ==
    cat.op = "fetch_all_catalogs_for_type" => ~cat.raised

\* C23 (specification SpecCatalog): a single misbehaving addon cannot break
\* the aggregated view: the catalogs of every well-formed enabled addon of the
\* collection are discovered whatever the other addons are.  Violated by a
\* collection with a malformed manifest: the pass returns no catalog at all.
C23_OthersStillDiscovered ==
    Went =>
        \A i \in 1..Len(cat.addons[1]) :
            LET step == AddonStep(cat.addons[1][i], cat.arg[1])
            IN  ~step.raised => Range(step.catalogs) \subseteq Returned

\* what a section says of its catalog, and a descriptor of itself
Heading(d) ==
    [catalog_name |-> d.catalog_name, addon_name |-> d.addon_name,
     catalog_id |-> d.catalog_id]

\* C24: the sections returned by fetch_all_catalogs_for_type are the
\* discovered catalog descriptors with the empty or failed catalogs removed,
\* in the order of the descriptors: never reordered, and never two sections
\* for one descriptor.
C24_SectionsInDescriptorOrder ==
    (cat.op = "fetch_all_catalogs_for_type" /\ ~cat.raised) =>
        LET sections == cat.ret[1]
        IN  /\ [k \in 1..Len(sections) |-> Heading(sections[k])]
                  = [k \in 1..Len(WithItems) |-> Heading(cat.catalogs[WithItems[k]])]
            /\ \E f \in [1..Len(sections) -> 1..Len(cat.catalogs)] :
                  /\ \A k \in 1..Len(sections) :
                        Heading(sections[k]) = Heading(cat.catalogs[f[k]])
                  /\ \A k, l \in 1..Len(sections) : k < l => f[k] < f[l]

\* C24 witness: the catalogs of two addons both gave items: two sections,
\* the one of the first descriptor first.
C24_Witness ==
    /\ cat.op = "fetch_all_catalogs_for_type"
    /\ ~cat.raised
    /\ Len(cat.catalogs) = 2
    /\ Heading(cat.catalogs[1]) # Heading(cat.catalogs[2])
    /\ Len(cat.ret[1]) = 2
    /\ Heading(cat.ret[1][1]) = Heading(cat.catalogs[1])

(***************************************************************************)
(* StremioLoginDialog                                                      *)
(***************************************************************************)
\* the clicks on the login button the model follows
MaxClicks == 3

\* StremioLoginDialog.__init__ (lines 37-41): its own auth service, not
\* loading; `threads` are the do_login_thread threads whose login() has not
\* returned, `idle` the _on_login_complete calls queued with GLib.idle_add,
\* `clicks` the clicks so far, `started` the logins they started, `ignored`
\* the clicks that came while loading, `requests` the login requests sent,
\* `toast` the last toast shown and `cause` the answer of the login it
\* reports, `timeouts` the _on_success calls pending, `returned` the logins
\* that returned, `signals` the login-success signals emitted
DialogNew ==
    /\ ~dialog.open
    /\ dialog' = [open |-> TRUE, is_loading |-> FALSE, threads |-> <<>>, idle |-> <<>>,
                  clicks |-> 0, started |-> 0, ignored |-> 0, requests |-> 0,
                  toast |-> <<>>, cause |-> <<>>, timeouts |-> 0, returned |-> 0,
                  signals |-> 0, closed |-> FALSE]
    /\ authInst' = [authInst EXCEPT !["dialog"] = CachedKey(store)]
    /\ last' = Called("new", <<>>, GetAuthKey(store), <<>>, FALSE, <<>>)
    /\ UNCHANGED <<server, store, addonInst, sessions, remote, written, panelVars, catVars,
                   pure, panel, view>>

\* the guards of _on_login_clicked with the first one left out
StartsLoginWhileLoading(is_loading, email, password) == email # "" /\ password # ""

\* the guards of _on_login_clicked (lines 63-70): not loading, and both
\* fields filled
StartsLogin(is_loading, email, password) ==
    ~is_loading /\ email # "" /\ password # ""

\* _on_login_clicked (lines 58-100) up to thread.start()
OnLoginClicked(email, password) ==
    /\ dialog.open
    /\ ~dialog.closed
    /\ dialog.clicks < MaxClicks
    /\ dialog' = IF StartsLogin(dialog.is_loading, email, password)
                 THEN [dialog EXCEPT !.is_loading = TRUE,
                                     !.threads = Append(@, [email |-> email]),
                                     !.clicks = @ + 1,
                                     !.started = @ + 1]
                 ELSE [dialog EXCEPT !.clicks = @ + 1,
                                     !.ignored = IF dialog.is_loading THEN @ + 1 ELSE @]
    /\ UNCHANGED <<svcVars, panelVars, catVars, pure, panel, view>>

\* do_login_thread (lines 87-96): login() and the completion handed to the
\* main loop
DoLoginThread ==
    /\ dialog.open
    /\ dialog.threads # <<>>
    /\ LET email == Head(dialog.threads).email
       IN  \E resp \in LoginResponses(LoginBody("dialog", email), server) :
              LET out == LoginOutcome(authInst["dialog"], store, Request(resp))
              IN  /\ LoginAs("dialog", email, resp)
                  /\ dialog' = [dialog EXCEPT
                                    !.threads = Tail(@),
                                    !.idle = Append(@, [success |-> ~out.raised,
                                                        data |-> out.msg,
                                                        cause |-> resp]),
                                    !.requests = @ + 1,
                                    !.returned = IF out.raised THEN @ ELSE @ + 1]
    /\ UNCHANGED <<panel, view>>

\* the lowercase words of the messages login() raises
Words(error) ==
    IF error = "Invalid credentials." THEN {"invalid", "credentials"}
    ELSE IF error = "Connection error. Please check your internet connection."
    THEN {"connection", "error", "please", "check", "your", "internet"}
    ELSE IF error = "Request timed out" THEN {"request", "timed", "out"}
    ELSE IF error = "Request failed with status code"
    THEN {"request", "failed", "with", "status", "code"}
    ELSE IF error = "Response has no result" THEN {"response", "has", "no", "result"}
    ELSE {}

\* _format_error_message (lines 128-147): the first of the keywords the
\* lowercased message contains decides
FormatErrorMessage(error) ==
    IF Words(error) \cap {"credentials", "password", "email"} # {}
    THEN "Invalid email or password"
    ELSE IF Words(error) \cap {"connection", "network"} # {}
    THEN "Connection error. Please check your internet connection."
    ELSE IF "timeout" \in Words(error) THEN "Request timed out. Please try again."
    ELSE "Login failed: " \o error

\* _on_login_complete leaving the dialog locked after a login that failed
OnLoginCompleteOnSuccessOnly ==
    /\ dialog.open
    /\ dialog.idle # <<>>
    /\ LET done == Head(dialog.idle)
       IN  dialog' = [dialog EXCEPT
                         !.is_loading = ~done.success,
                         !.idle = Tail(@),
                         !.timeouts = IF done.success THEN @ + 1 ELSE @]
    /\ UNCHANGED <<svcVars, panelVars, catVars, pure, panel, view>>

\* _on_login_complete (lines 102-126)
OnLoginComplete ==
    /\ dialog.open
    /\ dialog.idle # <<>>
    /\ LET done == Head(dialog.idle)
       IN  dialog' = [dialog EXCEPT
                         !.is_loading = FALSE,
                         !.idle = Tail(@),
                         !.toast = <<IF done.success THEN "Successfully signed in!"
                                     ELSE FormatErrorMessage(done.data)>>,
                         !.cause = <<done.cause>>,
                         !.timeouts = IF done.success THEN @ + 1 ELSE @]
    /\ UNCHANGED <<svcVars, panelVars, catVars, pure, panel, view>>

\* _on_success (lines 162-166), called by the timeout _on_login_complete set:
\* the login-success signal, and the dialog closed
OnSuccess ==
    /\ dialog.open
    /\ dialog.timeouts > 0
    /\ dialog' = [dialog EXCEPT !.timeouts = @ - 1, !.signals = @ + 1, !.closed = TRUE]
    /\ UNCHANGED <<svcVars, panelVars, catVars, pure, panel, view>>

NextDialog ==
    \/ DialogNew
    \/ \E email \in Emails \cup {""}, password \in {"pw", ""} : OnLoginClicked(email, password)
    \/ DoLoginThread
    \/ OnLoginComplete
    \/ OnSuccess

\* the login dialog: clicks at any time, its threads and its completions
SpecDialog == Init /\ [][NextDialog]_vars

\* the same, with what the threads and the main loop guarantee: login()
\* returns or raises (its request has a timeout), and the main loop calls what
\* GLib.idle_add and GLib.timeout_add queued
SpecDialogLive ==
    /\ SpecDialog
    /\ WF_vars(DoLoginThread)
    /\ WF_vars(OnLoginComplete)
    /\ WF_vars(OnSuccess)

(***************************************************************************)
(* Claims about get_user and the call primitive                            *)
(***************************************************************************)

\* C25 (specification Spec): get_user() with no session key stored returns
\* "no user" without error and without sending a request; with a key stored
\* and the remote call failing it raises and leaves the stored auth key, email
\* and id unchanged; when the remote call succeeds the stored email and id
\* become those of the returned user.  Violated by an instance built before a
\* logout: it tests the key it read at construction and sends getUser while
\* no key is stored.
C25_GetUser ==
    [][ last'.op = "get_user" =>
          /\ GetAuthKey(store) = "" =>
                /\ ~last'.raised
                /\ last'.sent = <<>>
                /\ last'.ret = <<Null>>
                /\ store' = store
          /\ (GetAuthKey(store) # "" /\ last'.raised) => store' = store
          /\ (last'.sent # <<>> /\ ~last'.raised /\ Truthy(last'.ret[1])) =>
                /\ store'.user_email = last'.ret[1].v.email
                /\ store'.user_id = last'.ret[1].v._id ]_vars

\* C26 (specification SpecRequest): for the call primitive of the two
\* services, a 200 response with a top-level error field fails with the
\* message taken from the string or from the nested message field, even when
\* a result field is also present; a 200 response with neither error nor
\* result fails with a protocol error; a non-200 response fails whatever its
\* body; only a 200 response with a result and no error returns that result.
C26_Envelope ==
    pure.op = "_request" =>
        LET resp == pure.resp
            out == pure.out[1]
            ok == resp.net = "ok" /\ resp.status = 200 /\ "data" \in DOMAIN resp
        IN  /\ (ok /\ "error" \in DOMAIN resp.data) =>
                  /\ out.raised
                  /\ resp.data.error.t = "string" => out.msg = resp.data.error.v
                  /\ (resp.data.error.t = "object"
                        /\ "message" \in DOMAIN resp.data.error.v)
                       => out.msg = resp.data.error.v.message
            /\ (ok /\ "error" \notin DOMAIN resp.data /\ "result" \notin DOMAIN resp.data) =>
                  out.raised /\ out.msg = "Response has no result"
            /\ (resp.net = "ok" /\ resp.status # 200) =>
                  out.raised /\ out.msg = "Request failed with status code"
            /\ ~out.raised <=> Succeeded(resp)
            /\ ~out.raised => out.result = resp.data.result

\* C26 witness: a 200 response with both an error and a result failed with
\* the message of the error.
C26_Witness ==
    /\ pure.op = "_request"
    /\ pure.resp.net = "ok"
    /\ pure.resp.status = 200
    /\ "data" \in DOMAIN pure.resp
    /\ {"error", "result"} \subseteq DOMAIN pure.resp.data
    /\ pure.out[1].raised
    /\ pure.out[1].msg = "Session does not exist"

\* C27 (specification SpecDialog): the password is never retried
\* automatically: each login() call sends at most one login request, no
\* further request follows a failure unless login is called again, and the
\* login dialog has at most one login in flight at any time: a click while a
\* login is in flight starts nothing.
C27_NoAutomaticRetry ==
    dialog.open =>
        /\ Len(dialog.threads) <= 1
        /\ dialog.threads # <<>> => dialog.is_loading
        /\ dialog.requests + Len(dialog.threads) = dialog.started
        /\ dialog.started + dialog.ignored <= dialog.clicks
        /\ last.op = "login" =>
              /\ Len(last.sent) = 1
              /\ last.sent[1].method = "login"

\* C27 witness: a second click came while the login of the first was in
\* flight, and a login that failed was followed by no other request.
C27_Witness ==
    /\ dialog.open
    /\ dialog.ignored = 1
    /\ dialog.started = 1
    /\ dialog.requests = 1
    /\ last.op = "login"
    /\ last.raised
    /\ ~dialog.is_loading

(***************************************************************************)
(* Claims about the loading of the addon page (specification SpecLoad)     *)
(***************************************************************************)

\* the state of the panel: the state row that is visible, POPULATED when
\* none is
PanelState ==
    IF panel.login_prompt THEN "LOGIN_PROMPT"
    ELSE IF panel.loading THEN "LOADING"
    ELSE IF panel.error THEN "ERROR"
    ELSE IF panel.empty THEN "EMPTY"
    ELSE "POPULATED"

\* the task the last handler dispatched or completed
EventTask == panel.loads[panel.event.task]

\* the addons of the rows shown, in order
RowAddons == [i \in 1..Len(panel.rows) |-> panel.rows[i].addon]

\* C28: when the addon panel is loaded its state is LOGIN_PROMPT if and only
\* if no session key is stored, and LOADING otherwise; in LOGIN_PROMPT no
\* fetch is dispatched; and in every panel state at most one of the
\* login-prompt, loading, error and empty rows is visible.
C28_LoadedState ==
    panel.built =>
        /\ Cardinality({ r \in StateRows : panel[r] }) <= 1
        /\ panel.event.name = "load" =>
              /\ PanelState = (IF panel.event.stored = "" THEN "LOGIN_PROMPT" ELSE "LOADING")
              /\ PanelState = "LOGIN_PROMPT" => panel.event.task = 0
              /\ PanelState = "LOADING" => EventTask.state = "queued"
        /\ PanelState = "LOGIN_PROMPT" =>
              \A t \in DOMAIN panel.loads : panel.loads[t].state = "done"

\* C28 witness: a retry after a logout showed the login prompt and dispatched
\* nothing.
C28_Witness ==
    /\ panel.built
    /\ panel.event.name = "load"
    /\ panel.event.stored = ""
    /\ PanelState = "LOGIN_PROMPT"
    /\ Len(panel.loads) = 1
    /\ panel.loads[1].state = "done"
    /\ panel.calls = 2

C30_FailedFetchShowsError ==
    (panel.built /\ panel.event.name = "loaded" /\ EventTask.raised) =>
        PanelState = "ERROR"

(***************************************************************************)
(* The page with its loads and its saves together                          *)
(***************************************************************************)
\* a toggle or a remove: the handler that queues a save
QueuesSave == Len(saves') > Len(saves)

\* the fetch of the first load of a dialog that was opened again is issued:
\* no row was shown since the dialog was opened, so every save the queue
\* holds was triggered before this load
FetchOfReopenedIssued ==
    /\ panel.built /\ panel'.built
    /\ panel.calls > 1 /\ Len(panel.loads) = 1
    /\ panel.loads[1].state = "queued" /\ panel'.loads[1].state = "fetched"

\* C31: a toggle or a remove in POPULATED queues a save and leaves the panel
\* in POPULATED, and when the fetch of a later load is issued every save
\* triggered before it has completed or failed.
C31_SaveDoneBeforeLaterLoad ==
    [][ /\ (panel.built /\ PanelState = "POPULATED" /\ QueuesSave) =>
               PanelState' = "POPULATED"
        /\ FetchOfReopenedIssued =>
               \A t \in DOMAIN saves : saves[t].state \in {"done", "failed"} ]_vars

\* the part of C31 the page keeps: the save leaves POPULATED displayed
C31_SaveKeepsPopulated ==
    [][ (panel.built /\ PanelState = "POPULATED" /\ QueuesSave) =>
            PanelState' = "POPULATED" ]_vars

\* a step of a worker: fetch_task ran for a load, or save_task moved on
WorkerStep ==
    \/ /\ panel.built /\ panel'.built
       /\ \E t \in DOMAIN panel.loads \cap DOMAIN panel'.loads :
             panel.loads[t].state = "queued" /\ panel'.loads[t].state = "fetched"
    \/ \E t \in DOMAIN saves \cap DOMAIN saves' : saves'[t].state # saves[t].state

\* C32: no step of a worker changes current_addons; the collection changes
\* only in the handlers and completion callbacks of the control thread.
C32_WorkersLeaveCollection ==
    [][ WorkerStep => current_addons' = current_addons ]_vars

(***************************************************************************)
(* enable_addon / disable_addon / remove_addon touch nothing else          *)
(***************************************************************************)
\* dicts d and e agree on every key but k
SameBut(d, e, k) ==
    /\ DOMAIN d \ {k} = DOMAIN e \ {k}
    /\ \A x \in DOMAIN d \ {k} : d[x] = e[x]

\* C33: enable_addon(C, i) and disable_addon(C, i) keep the length, the order,
\* every other element and every field but `enabled` of element i, and a call
\* of enable_addon, disable_addon or remove_addon sends no request and leaves
\* the stored credentials and the remote collection as they were.
C33_OnlyTheFlag ==
    [][ (pure.op = "none" /\ pure'.op \in {"enable_addon", "disable_addon", "remove_addon"}) =>
          /\ UNCHANGED <<store, remote, written, sessions, last, authInst, addonInst>>
          /\ pure'.op \in {"enable_addon", "disable_addon"} =>
                LET C == pure.addons
                    R == pure'.out[1]
                IN  /\ Len(R) = Len(C)
                    /\ \A j \in 1..Len(C) :
                          IF j = pure.index + 1
                          THEN SameBut(C[j], R[j], "enabled")
                          ELSE R[j] = C[j] ]_vars

\* C33 witness: disable_addon on the second of two descriptors, which had a
\* manifest and no flag; the first is as it was.
C33_Witness ==
    /\ pure.op = "disable_addon"
    /\ pure.index = 1
    /\ Len(pure.addons) = 2
    /\ "enabled" \notin DOMAIN pure.addons[2]
    /\ pure.out[1][2].enabled = FALSE
    /\ pure.out[1][2].manifest = pure.addons[2].manifest
    /\ pure.out[1][1] = pure.addons[1]

(***************************************************************************)
(* The login dialog: what a failed login is reported as                    *)
(***************************************************************************)
\* the answer the login request got is a 200 response with an error about
\* the credentials
CredentialsError(resp) ==
    /\ resp.net = "ok" /\ resp.status = 200
    /\ "data" \in DOMAIN resp /\ "error" \in DOMAIN resp.data
    /\ ErrorMessage(resp.data.error) = "Invalid credentials."

\* C34: the toast of a failed login is that of the category of its cause:
\* "Invalid email or password" for an error about the credentials, the
\* connection message for a connection failure, "Request timed out. Please
\* try again." for a request that timed out, and the generic "Login failed"
\* message for anything else.
C34_FriendlyCategory ==
    (dialog.open /\ dialog.toast # <<>> /\ dialog.toast # <<"Successfully signed in!">>) =>
        LET resp == dialog.cause[1]
        IN  dialog.toast[1] =
               IF CredentialsError(resp) THEN "Invalid email or password"
               ELSE IF resp.net = "connection"
               THEN "Connection error. Please check your internet connection."
               ELSE IF resp.net = "timeout" THEN "Request timed out. Please try again."
               ELSE "Login failed: " \o Request(resp).msg

(***************************************************************************)
(* The content view and its refresh                                        *)
(***************************************************************************)
\* C35: every call of refresh_view() starts a new discovery-and-fetch pass,
\* whose result will replace what is displayed, also when an earlier load
\* had succeeded with a non-empty result.
C35_RefreshReloads ==
    [][ (view.built /\ view'.built /\ view'.refreshes = view.refreshes + 1) =>
            /\ view'.passes = view.passes + 1
            /\ view'.threads = view.threads + 1 ]_vars

(***************************************************************************)
(* The stored identity of a logged-out session                             *)
(***************************************************************************)
\* C36: in every state reached by logins, logouts and get_user calls on any
\* of the instances, an empty stored auth key comes with an empty stored
\* email and an empty stored user id.
C36_NoIdentityWithoutKey ==
    GetAuthKey(store) = "" => (store.user_email = "" /\ store.user_id = "")

(***************************************************************************)
(* The reload after a login from the login prompt                          *)
(***************************************************************************)
\* the panel was opened logged out and showed the login prompt; a login from
\* it succeeded and the handler of its signal called _load_addons, which
\* queued the first fetch of the panel
ReloadedFromPrompt ==
    /\ panel.built
    /\ PanelState = "LOADING"
    /\ panel.calls = 2
    /\ Len(panel.loads) = 1
    /\ panel.loads[1].state = "queued"

\* what the claim leaves aside: an empty collection or one with a descriptor
\* that cannot be displayed, a fetch the endpoint answered with a failure, a
\* logout in between
ReloadExcused ==
    \/ remote = <<>>
    \/ \E i \in 1..Len(remote) : ~Displayable(remote[i])
    \/ last.op = "get_addon_collection" /\ last.sent # <<>> /\ last.raised
    \/ ~IsLoggedIn(store)

\* C37: after a successful login started from LOGIN_PROMPT the panel reloads
\* and, the remote collection being non-empty and the fetch endpoint
\* answering successfully, eventually is in POPULATED showing that collection.
C37_LoginReloadPopulates ==
    ReloadedFromPrompt ~>
        ((panel.built /\ PanelState = "POPULATED" /\ RowAddons = remote) \/ ReloadExcused)

(***************************************************************************)
(* POPULATED and the empty collection                                      *)
(***************************************************************************)
\* C38: whenever the panel is in POPULATED the current collection is not
\* empty; an empty collection, also the one left by the removal of the last
\* addon, is shown as EMPTY.
C38_PopulatedIsNonEmpty ==
    (panel.built /\ PanelState = "POPULATED") => current_addons # <<>>

(***************************************************************************)
(* The index bound to a row                                                *)
(***************************************************************************)
\* the addon row r displays is the element of current_addons at the index
\* bound to its switch and its remove button
RowBoundToItsAddon(r) ==
    LET row == panel.rows[r]
    IN  /\ InRange(current_addons, row.index)
        /\ DictGet(current_addons[row.index + 1], "transportUrl", "") =
              DictGet(row.addon, "transportUrl", "")

\* C39: in every reachable state of the panel the index bound to each row
\* shown is the position in current_addons of the addon the row displays.
C39_RowIndexIsPosition ==
    panel.built => \A r \in DOMAIN panel.rows : RowBoundToItsAddon(r)

(***************************************************************************)
(* Every login of the dialog completes                                     *)
(***************************************************************************)
\* C40: every login started from the dialog eventually completes on the
\* control thread, whether it succeeded, failed or timed out: the loading
\* flag is false again with no thread and no completion pending, and the
\* inputs are enabled with it; and the login-success signals emitted or
\* about to be are never more than the logins that returned.
C40_LoginCompletes ==
    /\ [](dialog.open => dialog.signals + dialog.timeouts <= dialog.returned)
    /\ (dialog.open /\ dialog.is_loading) ~>
          (dialog.open /\ ~dialog.is_loading /\ dialog.threads = <<>> /\ dialog.idle = <<>>)

\* C40 witness: two logins were started, the first failed and the second
\* succeeded; both completed and one signal was emitted.
C40_Witness ==
    /\ dialog.open
    /\ dialog.started = 2
    /\ dialog.returned = 1
    /\ dialog.signals = 1
    /\ ~dialog.is_loading
    /\ dialog.threads = <<>> /\ dialog.idle = <<>>
    /\ dialog.toast = <<"Successfully signed in!">>

=============================================================================
